---- MODULE Spec2Model ----
(***************************************************************************)
(* health_sync: reconciliation of per-day provider rows into the 'Unified' *)
(* Google Sheet (sheets.py), the sleep-session selection of the Oura and   *)
(* Polar adapters, the Garmin retry wrapper and the CLI range driver.      *)
(*                                                                         *)
(* Each machine has its own specification:                                 *)
(*   Spec       sheets.append_rows, one invocation at a time, every store  *)
(*              request may fail                                           *)
(*   SpecPick   the session selection functions on bounded session lists   *)
(*   SpecRetry  garmin._retry_with_backoff                                 *)
(*   SpecRange  cli._do_range followed by its append_rows call             *)
(*   SpecGarmin garmin.fetch_day: login and data requests through the      *)
(*              retry wrapper                                              *)
(*   SpecUtil   one call of a pure function of utils.py or models.py       *)
(*   SpecMetric the daily metrics the adapters resolve from a payload      *)
(*   SpecScript upsert_rows of the push scripts                            *)
(*   SpecUltra  UltrahumanClient._get                                      *)
(*   SpecConc   two sheets.append_rows invocations against one store       *)
(*   SpecRoss   RossClient._post                                           *)
(*   SpecRolla  RollaOneClient._login                                      *)
(*   SpecPush   one run of scripts/push_garmin_to_sheet.main               *)
(***************************************************************************)
EXTENDS Integers, Sequences, FiniteSets, TLC

VARIABLES
  \* ---- the external store: the spreadsheet
  tab,        \* TRUE iff the spreadsheet has a tab titled SHEET_NAME
  sheet,      \* the grid of the tab: sheet[1] is row 1, sheet[i] is row i
  \* ---- one append_rows invocation
  pc,         \* position of the invocation ("idle" between invocations)
  rows,       \* the argument of the current / last invocation
  existing,   \* local `existing`: key -> row index
  to_update,  \* local `to_update`: <<[row_idx, values]>>
  to_append,  \* local `to_append`
  outcome,    \* "none", "returned" or "raised": how the last invocation ended
  log,        \* the store requests of the current / last invocation, in order
  sheet0,     \* history: the grid when the current / last invocation started
  tab0,       \* history: tab when the current / last invocation started
  again,      \* history: the invocation repeats the batch of a returned one
  retry,      \* history: the invocation repeats the batch of one that raised
  presort,    \* history: the grid handed to the sort request
  \* ---- one session selection (oura.fetch_day, polar._pick_record_for_day)
  provider,   \* "oura" or "polar" ("none" outside SpecPick)
  periods,    \* the provider's session list
  day,        \* the target day, as a day number
  picked,     \* the selected session, or EmptyDict
  pickDone,   \* TRUE once the selection has run
  aware,      \* TRUE iff the provider's timestamps carry a UTC offset
  \* ---- one garmin._retry_with_backoff call
  r_pc,         \* "off", "loop", "sleep", "returned" or "raised"
  max_attempts, \* keyword argument
  base_delay,   \* keyword argument, seconds
  max_delay,    \* keyword argument, seconds
  attempt,      \* local `attempt`
  last_err,     \* local `last_err`: NoErr or [kind, n] (raised by call n)
  is_rl,        \* local `is_rl` of the last failure
  t_attempt,    \* `attempt` of a second run whose errors are classified independently
  t_is_rl,      \* `is_rl` of the second run
  t_delay,      \* `delay` of the second run
  delay,        \* local `delay` of the last failure, seconds
  jitter,       \* local `jitter` of the last failure, in quarters
  sleep_s,      \* local `sleep_s` of the last failure, in quarter seconds
  prev_delay,   \* history: `delay` of the failure before the last
  ncalls,       \* history: calls of fn so far
  nsleeps,      \* history: calls of time.sleep so far
  raised_err,   \* the error the call raised to its caller, or NoErr
  \* ---- one cli._do_range run
  d_pc,       \* "off", "loop", "after_loop", "appending", "done" or "raised"
  ndays,      \* days of the range start_date..end_date
  modules,    \* the loaded sources, in load order
  di,         \* the day of the current pair (1 is start_date)
  mi,         \* the position in modules of the current pair
  all_rows,   \* local `all_rows`
  fetched,    \* history: the fetch_day calls made, with their results
  err_lines,  \* history: "[ERR] ..." lines printed
  reported,   \* the count of the final "OK" line, or NoCount
  appended,   \* history: append_rows calls of the run
  unconfigured, \* the loaded sources whose credential or token is not set
  \* ---- one garmin.fetch_day call (online mode)
  g_pc,       \* "off", "start", "login", "fetch", "build", "returned" or "raised"
  g_creds,    \* TRUE iff GARMIN_USERNAME and GARMIN_PASSWORD are set
  g_i,        \* the data request at hand: a position in GarminRequests
  g_payload,  \* per data request: "none", "data", or "empty" for the {} of except
  g_rows,     \* what fetch_day returned: "none" yet, "row" or "empty"
  \* ---- one call of a pure function
  u_fn,       \* the function called
  u_arg,      \* its argument
  u_res,      \* its result
  u_done,     \* TRUE once it has returned
  \* ---- an adapter resolving the daily metrics of one row
  m_adapter,  \* "oura", "polar" or "garmin"
  m_payload,  \* the payload fields the metrics are taken from
  m_row,      \* the metrics of the row built
  m_done,     \* TRUE once the row is built
  \* ---- the push scripts
  s_script,   \* "garmin" or "polar": the script run
  s_sheet,    \* the grid of the script's tab
  s_sheet0,   \* history: the grid before the first call
  s_rows,     \* the rows every call is given
  s_calls,    \* upsert_rows calls made
  \* ---- one UltrahumanClient._get call
  h_pc,        \* "off", "headers", "get", "refresh" or "done"
  h_access,    \* self._access_token is set
  h_refresh,   \* self._refresh_token is set
  h_creds,     \* client id and secret are set
  h_expired,   \* time.time() >= self._expires_at
  h_gets,      \* data requests sent
  h_posts,     \* token requests sent
  h_refreshed, \* outcomes of the refresh_access_token calls of line 136
  h_first,     \* status of the first data request
  h_last,      \* status of the last data request
  h_result,    \* "none", "returned" or "raised"
  h_unknown,   \* _expires_at is still the 0.0 of the constructor
  h_tried,     \* history: refresh_access_token calls made by _headers
  \* ---- two append_rows invocations against one store
  c_sheet,    \* the grid of the tab
  c_sheet0,   \* history: the grid before the invocations
  c_pc,       \* position of each invocation
  c_rows,     \* the argument of each invocation
  c_plan,     \* each invocation's locals to_update and to_append
  c_overlap,  \* history: a step was taken inside the other invocation
  c_early,    \* history: the invocations that read the index before any write
  c_wrote,    \* history: the store has been written
  \* ---- one RossClient._post call
  ro_pc,        \* "off", "headers", "post", "login" or "done"
  ro_token,     \* access_token is set
  ro_expired,   \* time.time() >= expires_at
  ro_config,    \* partner id, email and password are set
  ro_posts,     \* data requests sent by this call
  ro_logins,    \* history: the _login calls, <<caller, result>>
  ro_first,     \* answer to the first data request
  ro_last,      \* answer to the last data request
  ro_result,    \* "none", "returned" or "raised"
  \* ---- one RollaOneClient._login call
  l_pc,         \* "off", "start", "loop", "after_loop" or "done"
  l_config,     \* email and password are set
  l_token,      \* self._token: "none", "old", "new" or "blank"
  l_token0,     \* history: self._token when _login was called
  l_auth,       \* the session's Authorization header, as l_token
  l_seen,       \* history: the answers to the payload variants tried
  l_data,       \* local `data`: "unbound" or the last answer parsed
  l_last_data,  \* local `last_data`: "none" or the last dict parsed
  l_result,     \* "none", "returned" or the error raised
  \* ---- one run of scripts/push_garmin_to_sheet.main
  pg_pc,        \* "off", "loop", "pause", "retry", "after_loop" or "done"
  pg_dates,     \* len(dates)
  pg_i,         \* position of d in dates, from 1
  pg_done,      \* local `long_pause_done`
  pg_all_rows,  \* len(all_rows)
  pg_fetched,   \* history: the fetch_day calls, <<date, result, after pause>>
  pg_pauses,    \* history: long pauses made
  pg_upserts    \* history: upsert_rows calls, <<dates attempted, rows>>

sheetVars == <<tab, sheet, pc, rows, existing, to_update, to_append,
               outcome, log, sheet0, tab0, again, retry, presort>>

pickVars == <<provider, periods, day, picked, pickDone, aware>>

retryVars == <<r_pc, max_attempts, base_delay, max_delay, attempt, last_err,
               is_rl, t_attempt, t_is_rl, t_delay, delay, jitter, sleep_s, prev_delay, ncalls, nsleeps,
               raised_err>>

rangeVars == <<d_pc, ndays, modules, di, mi, all_rows, fetched, err_lines,
               reported, appended, unconfigured>>

garminVars == <<g_pc, g_creds, g_i, g_payload, g_rows>>

\* a call of one of the pure functions of utils.py and models.py
utilVars == <<u_fn, u_arg, u_res, u_done>>

\* the machines that follow the first five
metricVars == <<m_adapter, m_payload, m_row, m_done>>

scriptVars == <<s_script, s_sheet, s_sheet0, s_rows, s_calls>>

ultraVars == <<h_pc, h_access, h_refresh, h_creds, h_expired, h_gets, h_posts,
               h_refreshed, h_first, h_last, h_result, h_unknown, h_tried>>

concVars == <<c_sheet, c_sheet0, c_pc, c_rows, c_plan, c_overlap, c_early,
              c_wrote>>

rossVars == <<ro_pc, ro_token, ro_expired, ro_config, ro_posts, ro_logins, ro_first,
              ro_last, ro_result>>

rollaVars == <<l_pc, l_config, l_token, l_token0, l_auth, l_seen, l_data,
               l_last_data, l_result>>

pushVars == <<pg_pc, pg_dates, pg_i, pg_done, pg_all_rows, pg_fetched, pg_pauses,
              pg_upserts>>

moreVars == <<rossVars, rollaVars, pushVars>>

restVars == <<utilVars, metricVars, scriptVars, ultraVars, concVars, moreVars>>

coreVars == <<sheetVars, pickVars, retryVars, rangeVars, garminVars>>

baseVars == <<coreVars, utilVars, metricVars, scriptVars, ultraVars, concVars>>

vars == <<coreVars, restVars>>

\* what a step of append_rows leaves alone
otherVars == <<pickVars, retryVars, rangeVars, garminVars, restVars>>

-----------------------------------------------------------------------------
(* Bounds of the model *)

MaxBatch == 2      \* rows per append_rows batch
MaxRows == 2       \* rows of the grid below row 1
MaxSessions == 2   \* sessions in a provider's list
MaxAttemptsArg == 7  \* greatest max_attempts a call is given
MaxDays == 2       \* days of a _do_range run

-----------------------------------------------------------------------------
(* Values *)

None == "<None>"   \* Python's None inside an incoming row

UNIFIED_HEADER ==
  << "date", "source", "bedtime", "wake_time", "sleep_duration_min",
     "sleep_score", "rhr_bpm", "hrv_ms", "readiness_or_body_battery_score",
     "health_score", "steps", "active_calories", "activity_score",
     "workout_type", "workout_duration_min", "workout_active_calories",
     "workout_avg_hr_bpm", "workout_max_hr_bpm", "distance_km",
     "pace_min_per_km", "avg_speed_kmh", "workout_or_strain_score",
     "source_record_id" >>

HEADER == UNIFIED_HEADER

\* UnifiedRow(date, source, bedtime, source_record_id).as_row(): every other
\* field keeps its default None
as_row(date, source, bedtime, source_record_id) ==
  [i \in 1..Len(UNIFIED_HEADER) |->
     CASE i = 1 -> date
       [] i = 2 -> source
       [] i = 3 -> bedtime
       [] i = Len(UNIFIED_HEADER) -> source_record_id
       [] OTHER -> None]

Day1 == "2025-01-10"
Day2 == "2025-01-11"

\* Column A is sorted as text: ISO dates compare as their days do, and an
\* empty cell sorts after every value
DateOrd(d) ==
  CASE d = Day1 -> 10
    [] d = Day2 -> 11
    [] d = "2025-01-12" -> 12
    [] OTHER -> 99

\* Incoming rows: a daily row without record id, a daily row with the
\* explicit id, a row shorter than the header (same key as the second, other
\* content), and a workout row longer than the header
InputRows ==
  { as_row(Day2, "oura", "23:10:00", None),
    as_row(Day1, "oura", "23:10:00", "daily"),
    <<Day1, "oura", "22:05:00">>,
    as_row(Day1, "oura", "23:10:00", "w1") \o <<"extra">> }

RECURSIVE SeqsUpTo(_, _)
SeqsUpTo(S, n) ==
  IF n = 0 THEN {<<>>}
  ELSE LET shorter == SeqsUpTo(S, n - 1)
       IN shorter \cup {Append(s, x) : s \in {t \in shorter : Len(t) = n - 1}, x \in S}

Batches == SeqsUpTo(InputRows, MaxBatch)

-----------------------------------------------------------------------------
(* sheets.py: pure helpers *)

Truthy(v) == v # "" /\ v # None

_pad_row(row) ==
  LET missing == Len(HEADER) - Len(row)
      padded == IF missing > 0 THEN row \o [i \in 1..missing |-> ""] ELSE row
  IN SubSeq(padded, 1, Len(HEADER))

\* spreadsheets.values.get drops the trailing empty cells of every row
TrimRow(r) ==
  LET filled == {i \in 1..Len(r) : r[i] # ""}
  IN IF filled = {} THEN <<>>
     ELSE SubSeq(r, 1, CHOOSE m \in filled : \A n \in filled : n <= m)

\* values.get of A2:<last_col>100000
ValuesGet(sh) == [i \in 1..(IF Len(sh) > 1 THEN Len(sh) - 1 ELSE 0) |-> TrimRow(sh[i + 1])]

\* the key _read_existing_map derives for a row as read back
ReadKey(r) ==
  LET date == IF Len(r) > 0 THEN r[1] ELSE ""
      source == IF Len(r) > 1 THEN r[2] ELSE ""
      src_id == IF Len(r) >= Len(HEADER) THEN r[Len(HEADER)] ELSE "daily"
  IN <<date, source, IF Truthy(src_id) THEN src_id ELSE "daily">>

Indexed(r) == r # <<>> /\ Truthy(ReadKey(r)[1]) /\ Truthy(ReadKey(r)[2])

SetMax(S) == CHOOSE m \in S : \A n \in S : n <= m

\* as _read_existing_map with enumerate(rows, start=1)
ReadExistingMapFromRow1(sh) ==
  LET resp == ValuesGet(sh)
      hits(k) == {i \in 1..Len(resp) : Indexed(resp[i]) /\ ReadKey(resp[i]) = k}
      keys == {ReadKey(resp[i]) : i \in {j \in 1..Len(resp) : Indexed(resp[j])}}
  IN [k \in keys |-> SetMax(hits(k))]

_read_existing_map(sh) ==
  LET resp == ValuesGet(sh)
      hits(k) == {i \in 1..Len(resp) : Indexed(resp[i]) /\ ReadKey(resp[i]) = k}
      keys == {ReadKey(resp[i]) : i \in {j \in 1..Len(resp) : Indexed(resp[j])}}
  IN [k \in keys |-> SetMax(hits(k)) + 1]

\* the key append_rows computes for an incoming, padded row
WriteKey(row) ==
  <<row[1], row[2], IF Truthy(row[Len(row)]) THEN row[Len(row)] ELSE "daily">>

\* lines 113-114: None becomes "", then the row is padded / truncated
Incoming(r) == _pad_row([i \in 1..Len(r) |-> IF r[i] = None THEN "" ELSE r[i]])

\* lines 113-122: the loop that splits the batch
PlanUpdate(ex, batch) ==
  LET padded == [i \in 1..Len(batch) |-> Incoming(batch[i])]
      found == SelectSeq(padded, LAMBDA row : WriteKey(row) \in DOMAIN ex)
  IN [i \in 1..Len(found) |-> [row_idx |-> ex[WriteKey(found[i])], values |-> found[i]]]

PlanAppend(ex, batch) ==
  LET padded == [i \in 1..Len(batch) |-> Incoming(batch[i])]
  IN SelectSeq(padded, LAMBDA row : WriteKey(row) \notin DOMAIN ex)

-----------------------------------------------------------------------------
(* The store's requests *)

\* values.update of A1 with one row
UpdateA1(sh, row) == IF sh = <<>> THEN <<row>> ELSE [sh EXCEPT ![1] = row]

\* values.batchUpdate: the ranges are written in the order given
RECURSIVE BatchUpdateValues(_, _)
BatchUpdateValues(sh, data) ==
  IF data = <<>> THEN sh
  ELSE LET u == Head(data)
           grown == IF u.row_idx > Len(sh)
                    THEN sh \o [i \in 1..(u.row_idx - Len(sh)) |-> <<>>]
                    ELSE sh
       IN BatchUpdateValues([grown EXCEPT ![u.row_idx] = u.values], Tail(data))

\* as AppendValues with OVERWRITE for INSERT_ROWS, from the last row on
AppendValuesOverLastRow(sh, new) ==
  IF Len(sh) > 1 THEN SubSeq(sh, 1, Len(sh) - 1) \o new ELSE sh \o new

\* values.append with INSERT_ROWS: the rows go below the last row of the table
AppendValues(sh, new) == sh \o new

\* stable insertion of a row into a list sorted by column A
RECURSIVE InsertByDate(_, _)
InsertByDate(sorted, r) ==
  IF sorted = <<>> THEN <<r>>
  ELSE IF DateOrd(r[1]) < DateOrd(Head(sorted)[1]) THEN <<r>> \o sorted
  ELSE <<Head(sorted)>> \o InsertByDate(Tail(sorted), r)

RECURSIVE SortByDate(_)
SortByDate(rs) ==
  IF rs = <<>> THEN <<>>
  ELSE InsertByDate(SortByDate(SubSeq(rs, 1, Len(rs) - 1)), rs[Len(rs)])

\* as SortRange with startRowIndex 2
SortRangeFromRow3(sh) ==
  IF Len(sh) <= 2 THEN sh ELSE SubSeq(sh, 1, 2) \o SortByDate(SubSeq(sh, 3, Len(sh)))

\* sortRange from startRowIndex 1, column 0 ascending
SortRange(sh) == IF Len(sh) <= 1 THEN sh ELSE <<Head(sh)>> \o SortByDate(Tail(sh))

DataRows(sh) == IF Len(sh) > 1 THEN Tail(sh) ELSE <<>>

-----------------------------------------------------------------------------
(* sheets.append_rows, one store request per step *)

EmptyMap == [k \in {} |-> 0]

Requested(op, ok) == Append(log, [op |-> op, ok |-> ok])

\* as Fail with the error caught and the function going on
FailSwallowed(op, next) ==
  /\ pc' = next
  /\ outcome' = IF next = "idle" THEN "returned" ELSE outcome
  /\ log' = Requested(op, FALSE)
  /\ UNCHANGED <<tab, sheet, rows, existing, to_update, to_append,
                 sheet0, tab0, again, retry, presort>>

\* no try/except in append_rows: an error of .execute() leaves the function
Fail(op, next) ==
  /\ pc' = "idle"
  /\ outcome' = "raised"
  /\ log' = Requested(op, FALSE)
  /\ UNCHANGED <<tab, sheet, rows, existing, to_update, to_append,
                 sheet0, tab0, again, retry, presort>>

\* the request succeeded and changed nothing in the store
Pass(op, next) ==
  /\ pc' = next
  /\ log' = Requested(op, TRUE)
  /\ UNCHANGED <<tab, sheet, rows, existing, to_update, to_append, outcome,
                 sheet0, tab0, again, retry, presort>>

\* line 102: the call; an empty batch returns at once (lines 103-104)
append_rows(batch) ==
  /\ pc = "idle"
  /\ rows' = batch
  /\ sheet0' = sheet
  /\ tab0' = tab
  /\ again' = (outcome = "returned" /\ batch = rows)
  /\ retry' = (outcome = "raised" /\ batch = rows)
  /\ log' = <<>>
  /\ presort' = <<>>
  /\ existing' = EmptyMap
  /\ to_update' = <<>>
  /\ to_append' = <<>>
  /\ IF batch = <<>>
       THEN pc' = "idle" /\ outcome' = "returned"
       ELSE pc' = "ensure_tab" /\ outcome' = "none"
  /\ UNCHANGED <<tab, sheet>>

\* _ensure_tab, line 46: spreadsheets.get
EnsureTabGet ==
  /\ pc = "ensure_tab"
  /\ \/ Pass("spreadsheets.get", IF tab THEN "read" ELSE "add_sheet")
     \/ Fail("spreadsheets.get", IF tab THEN "read" ELSE "add_sheet")
  /\ UNCHANGED otherVars

\* _ensure_tab, lines 49-52: addSheet
EnsureTabAddSheet ==
  /\ pc = "add_sheet"
  /\ \/ /\ tab' = TRUE
        /\ sheet' = <<>>
        /\ pc' = "write_header"
        /\ log' = Requested("addSheet", TRUE)
        /\ UNCHANGED <<rows, existing, to_update, to_append, outcome,
                       sheet0, tab0, again, retry, presort>>
     \/ Fail("addSheet", "write_header")
  /\ UNCHANGED otherVars

\* _ensure_tab, lines 53-58: the header goes to A1
EnsureTabHeader ==
  /\ pc = "write_header"
  /\ \/ /\ sheet' = UpdateA1(sheet, HEADER)
        /\ pc' = "read"
        /\ log' = Requested("values.update", TRUE)
        /\ UNCHANGED <<tab, rows, existing, to_update, to_append, outcome,
                       sheet0, tab0, again, retry, presort>>
     \/ Fail("values.update", "read")
  /\ UNCHANGED otherVars

\* as AfterRead with `elif to_update` after `if to_append`
AfterReadEitherWrite(upd, app) ==
  IF app # <<>> THEN "append" ELSE IF upd # <<>> THEN "batch_update" ELSE "sheet_id"

\* as AfterRead with neither write made
AfterReadSkipsWrites(upd, app) == "sheet_id"

\* lines 124 and 130: which write follows the index read
AfterRead(upd, app) ==
  IF upd # <<>> THEN "batch_update" ELSE IF app # <<>> THEN "append" ELSE "sheet_id"

\* line 109 and the loop of lines 113-122
ReadExisting ==
  /\ pc = "read"
  /\ \/ LET ex == _read_existing_map(sheet)
            upd == PlanUpdate(ex, rows)
            app == PlanAppend(ex, rows)
        IN /\ existing' = ex
           /\ to_update' = upd
           /\ to_append' = app
           /\ pc' = AfterRead(upd, app)
           /\ log' = Requested("values.get", TRUE)
           /\ UNCHANGED <<tab, sheet, rows, outcome, sheet0, tab0, again, retry, presort>>
     \/ Fail("values.get", "batch_update")
  /\ UNCHANGED otherVars

\* lines 124-128
BatchUpdate ==
  /\ pc = "batch_update"
  /\ \/ /\ sheet' = BatchUpdateValues(sheet, to_update)
        /\ pc' = IF to_append # <<>> THEN "append" ELSE "sheet_id"
        /\ log' = Requested("values.batchUpdate", TRUE)
        /\ UNCHANGED <<tab, rows, existing, to_update, to_append, outcome,
                       sheet0, tab0, again, retry, presort>>
     \/ Fail("values.batchUpdate", IF to_append # <<>> THEN "append" ELSE "sheet_id")
  /\ UNCHANGED otherVars

\* lines 130-137
AppendBatch ==
  /\ pc = "append"
  /\ \/ /\ sheet' = AppendValues(sheet, to_append)
        /\ pc' = "sheet_id"
        /\ log' = Requested("values.append", TRUE)
        /\ UNCHANGED <<tab, rows, existing, to_update, to_append, outcome,
                       sheet0, tab0, again, retry, presort>>
     \/ Fail("values.append", "sheet_id")
  /\ UNCHANGED otherVars

\* line 140: _get_sheet_id
GetSheetId ==
  /\ pc = "sheet_id"
  /\ \/ /\ tab
        /\ Pass("spreadsheets.get", "sort")
     \/ Fail("spreadsheets.get", "sort")
  /\ UNCHANGED otherVars

\* lines 141-153: the sort is the last statement, then the function returns
SortSheet ==
  /\ pc = "sort"
  /\ \/ /\ presort' = sheet
        /\ sheet' = SortRange(sheet)
        /\ pc' = "idle"
        /\ outcome' = "returned"
        /\ log' = Requested("sortRange", TRUE)
        /\ UNCHANGED <<tab, rows, existing, to_update, to_append,
                       sheet0, tab0, again, retry>>
     \/ Fail("sortRange", "idle")
  /\ UNCHANGED otherVars

SheetStep ==
  \/ EnsureTabGet
  \/ EnsureTabAddSheet
  \/ EnsureTabHeader
  \/ ReadExisting
  \/ BatchUpdate
  \/ AppendBatch
  \/ GetSheetId
  \/ SortSheet

SheetInit ==
  /\ tab \in BOOLEAN
  /\ sheet = IF tab THEN <<HEADER>> ELSE <<>>
  /\ pc = "idle"
  /\ rows = <<>>
  /\ existing = EmptyMap
  /\ to_update = <<>>
  /\ to_append = <<>>
  /\ outcome = "none"
  /\ log = <<>>
  /\ sheet0 = sheet
  /\ tab0 = tab
  /\ again = FALSE
  /\ retry = FALSE
  /\ presort = <<>>

-----------------------------------------------------------------------------
(* Session selection: oura.py lines 97-150 and 221-223, polar.py 158-187.  *)
(* Timestamps are hours on one wall clock; day n is [24n, 24n + 24).       *)

NoTime == 0 - 1     \* a timestamp that is missing or that _parse_iso rejects

EmptyDict == [start |-> NoTime, end |-> NoTime, type |-> "", duration |-> 0]

\* the selection did not return: a comparison of an offset-naive with an
\* offset-aware datetime raised TypeError
TypeError == [start |-> NoTime, end |-> NoTime, type |-> "TypeError", duration |-> 0]

\* (start, end) of the sessions drawn: before the window of day 1, ending on
\* its first instant, ending inside it, inside it (two ends), reaching past
\* it (two ends), and with a start or an end that does not parse
Spans ==
  { <<10, 20>>, <<10, 24>>, <<10, 30>>, <<26, 30>>, <<26, 40>>, <<26, 50>>,
    <<26, 52>>, <<NoTime, 30>>, <<10, NoTime>> }

SessionSet ==
  { [start |-> sp[1], end |-> sp[2], type |-> ty, duration |-> du] :
      sp \in Spans, ty \in {"long_sleep", "nap"}, du \in {6, 7} }

SessionLists == SeqsUpTo(SessionSet, MaxSessions)

Max2(a, b) == IF a >= b THEN a ELSE b
Min2(a, b) == IF a <= b THEN a ELSE b

\* tuple comparison of Python, on tuples of one length
RECURSIVE TupleLess(_, _)
TupleLess(a, b) ==
  IF a = <<>> THEN FALSE
  ELSE IF Head(a) # Head(b) THEN Head(a) < Head(b)
  ELSE TupleLess(Tail(a), Tail(b))

_window_day(d) == <<24 * d, 24 * d + 24>>

_overlap_seconds(a_start, a_end, b_start, b_end) ==
  Max2(0, Min2(a_end, b_end) - Max2(a_start, b_start))

\* candidates.sort(key) ; candidates[-1]: of the positions of greatest key,
\* the last one (the sort is stable)
LastOfGreatest(idxs, key) ==
  CHOOSE i \in idxs :
    \A j \in idxs : j # i => (TupleLess(key[j], key[i]) \/ (key[j] = key[i] /\ j < i))

\* `if key > best_key` in list order: of the positions of greatest key, the
\* first one
FirstOfGreatest(idxs, key) ==
  CHOOSE i \in idxs :
    \A j \in idxs : j # i => (TupleLess(key[j], key[i]) \/ (key[j] = key[i] /\ i < j))

\* oura.py lines 114-115 and 136-137: the window takes the tzinfo of the
\* start of the first period, and is naive when that start does not parse
WindowAware(ps) == aware /\ ps[1].start # NoTime

\* a parsed timestamp of the list meets the window in a comparison
Mismatch(ps) == aware # WindowAware(ps)

_pick_sleep_ending_in_day(ps, d) ==
  LET w == _window_day(d)
      parsed == {i \in 1..Len(ps) : ps[i].end # NoTime}
      cand == {i \in parsed : w[1] <= ps[i].end /\ ps[i].end < w[2]}
      key == [i \in 1..Len(ps) |->
                <<IF ps[i].type = "long_sleep" THEN 1 ELSE 0, ps[i].duration, ps[i].end>>]
  IN IF ps = <<>> THEN EmptyDict
     ELSE IF parsed # {} /\ Mismatch(ps) THEN TypeError
     ELSE IF cand = {} THEN EmptyDict
     ELSE ps[LastOfGreatest(cand, key)]

_pick_sleep_for_day(ps, d) ==
  LET w == _window_day(d)
      ok == {i \in 1..Len(ps) : ps[i].start # NoTime /\ ps[i].end # NoTime}
      key == [i \in 1..Len(ps) |->
                <<_overlap_seconds(ps[i].start, ps[i].end, w[1], w[2]),
                  IF ps[i].type = "long_sleep" THEN 1 ELSE 0>>]
      \* best_key starts at (-1.0, 0): every parsed session beats it
      beats == {i \in ok : TupleLess(<<0 - 1, 0>>, key[i])}
  IN IF ps = <<>> THEN EmptyDict
     ELSE IF ok # {} /\ Mismatch(ps) THEN TypeError
     ELSE IF beats = {} THEN EmptyDict
     ELSE ps[FirstOfGreatest(beats, key)]

\* oura.fetch_day, lines 222-223
NonNaps(ps) ==
  LET kept == SelectSeq(ps, LAMBDA p : p.type # "nap")
  IN IF kept # <<>> THEN kept ELSE ps

OuraSleepPeriod(ps, d) ==
  LET non_naps == NonNaps(ps)
      first == _pick_sleep_ending_in_day(non_naps, d)
  IN IF first # EmptyDict THEN first ELSE _pick_sleep_for_day(non_naps, d)

\* polar.py overlap_sec, lines 174-181
overlap_sec(it, d) ==
  IF it.start = NoTime \/ it.end = NoTime THEN 0 - 1
  ELSE Max2(0, Min2(it.end, 24 * d + 24) - Max2(it.start, 24 * d))

_pick_record_for_day(items, d) ==
  LET cand == {i \in 1..Len(items) :
                 items[i].end # NoTime /\ 24 * d <= items[i].end /\ items[i].end < 24 * d + 24}
      durKey == [i \in 1..Len(items) |-> <<items[i].duration>>]
      ovKey == [i \in 1..Len(items) |-> <<overlap_sec(items[i], d), items[i].duration>>]
      best == items[LastOfGreatest(1..Len(items), ovKey)]
  IN IF items = <<>> THEN EmptyDict
     ELSE IF cand # {} THEN items[LastOfGreatest(cand, durKey)]
     ELSE IF overlap_sec(best, d) <= 0 THEN EmptyDict
     ELSE best


-----------------------------------------------------------------------------
(* garmin._retry_with_backoff, lines 206-228 *)

DefaultMaxAttempts == 6
DefaultBaseDelay == 1
DefaultMaxDelay == 60

NoErr == [kind |-> "", n |-> 0]

ErrKinds == {"timeout", "429"}

\* random.uniform(0.25, 1.25), in quarters
Jitters == 1..5

\* _is_rate_limited_error on the message of the error
_is_rate_limited_error(err) == err.kind = "429"

\* as LoopCond with `<=`
LoopCondInclusive(a, m) == a <= m

\* line 209: while attempt < max_attempts
LoopCond(a, m) == a < m

\* as Delay with 2 ** attempt
DelayFromNextPower(b, m, a) == Min2(m, b * 2 ^ a)

\* line 216
Delay(b, m, a) == Min2(m, b * 2 ^ (a - 1))

\* lines 210-211: fn() returns
AttemptReturns ==
  /\ r_pc = "loop"
  /\ LoopCond(attempt, max_attempts)
  /\ ncalls' = ncalls + 1
  /\ r_pc' = "returned"
  /\ UNCHANGED <<max_attempts, base_delay, max_delay, attempt, last_err, is_rl, t_attempt, t_is_rl, t_delay,
                 delay, jitter, sleep_s, prev_delay, nsleeps, raised_err>>
  /\ UNCHANGED <<sheetVars, pickVars, rangeVars, garminVars, restVars>>

\* as OnFnError, with a rate-limited error waiting max_delay at once
OnFnErrorRateLimitedAtCap(e, a, b, m) ==
  [attempt |-> a + 1,
   is_rl   |-> _is_rate_limited_error(e),
   delay   |-> IF _is_rate_limited_error(e) THEN m ELSE Delay(b, m, a + 1)]

\* lines 213-216: the locals the handler sets for the error e
OnFnError(e, a, b, m) ==
  [attempt |-> a + 1,
   is_rl   |-> _is_rate_limited_error(e),
   delay   |-> Delay(b, m, a + 1)]

\* lines 212-224: fn() raises; the second run gets an error at the same
\* call, classified on its own
AttemptRaises ==
  /\ r_pc = "loop"
  /\ LoopCond(attempt, max_attempts)
  /\ \E kind \in ErrKinds, kind2 \in ErrKinds, j \in Jitters :
       LET e  == [kind |-> kind, n |-> ncalls + 1]
           e2 == [kind |-> kind2, n |-> ncalls + 1]
           h  == OnFnError(e, attempt, base_delay, max_delay)
           h2 == OnFnError(e2, t_attempt, base_delay, max_delay)
       IN /\ ncalls' = ncalls + 1
          /\ last_err' = e
          /\ attempt' = h.attempt
          /\ is_rl' = h.is_rl
          /\ delay' = h.delay
          /\ prev_delay' = delay
          /\ jitter' = j
          /\ sleep_s' = h.delay * j
          /\ t_attempt' = h2.attempt
          /\ t_is_rl' = h2.is_rl
          /\ t_delay' = h2.delay
  /\ r_pc' = "sleep"
  /\ UNCHANGED <<max_attempts, base_delay, max_delay, nsleeps, raised_err>>
  /\ UNCHANGED <<sheetVars, pickVars, rangeVars, garminVars, restVars>>

\* line 225
Sleep ==
  /\ r_pc = "sleep"
  /\ nsleeps' = nsleeps + 1
  /\ r_pc' = "loop"
  /\ UNCHANGED <<max_attempts, base_delay, max_delay, attempt, last_err, is_rl, t_attempt, t_is_rl, t_delay,
                 delay, jitter, sleep_s, prev_delay, ncalls, raised_err>>
  /\ UNCHANGED <<sheetVars, pickVars, rangeVars, garminVars, restVars>>

\* lines 226-228
LoopExit ==
  /\ r_pc = "loop"
  /\ ~LoopCond(attempt, max_attempts)
  /\ IF last_err # NoErr
       THEN r_pc' = "raised" /\ raised_err' = last_err
       ELSE r_pc' = "returned" /\ raised_err' = raised_err
  /\ UNCHANGED <<max_attempts, base_delay, max_delay, attempt, last_err, is_rl, t_attempt, t_is_rl, t_delay,
                 delay, jitter, sleep_s, prev_delay, ncalls, nsleeps>>
  /\ UNCHANGED <<sheetVars, pickVars, rangeVars, garminVars, restVars>>

RetryNext == AttemptReturns \/ AttemptRaises \/ Sleep \/ LoopExit

-----------------------------------------------------------------------------
(* cli._do_range, lines 139-165 *)

NoCount == 0 - 1

Dates == <<"2025-01-10", "2025-01-11", "2025-01-12">>

\* the sources _load_selected_sources can have loaded, in the order of its
\* candidates dict
ModuleLists == {<<"oura">>, <<"polar">>, <<"oura", "polar">>}

\* what one fetch_day call does: it raises, or returns no row or one row
FetchResults == {"raise", "empty", "rows"}

RowsOf(result, d, name) ==
  IF result = "rows" THEN <<as_row(Dates[d], name, "23:10:00", None)>> ELSE <<>>

\* a source without its credential raises RuntimeError in every fetch_day
\* (garmin._login_client lines 126-129, polar._ensure_access_token)
FetchOutcomes(name) == IF name \in unconfigured THEN {"raise"} ELSE FetchResults

\* the pair after (d, m) in `for day ...: for name, mod in modules.items()`
NextPair(d, m) == IF m < Len(modules) THEN <<d, m + 1>> ELSE <<d + 1, 1>>

\* as OnFetchError with `break`
OnFetchErrorBreak(d, m) == <<d + 1, 1>>

\* line 150: `continue`
OnFetchError(d, m) == NextPair(d, m)

\* lines 140-159: one pass of the inner loop
FetchDay ==
  /\ d_pc = "loop"
  /\ \E result \in FetchOutcomes(modules[mi]) :
       LET to == IF result = "raise" THEN OnFetchError(di, mi) ELSE NextPair(di, mi)
       IN /\ fetched' = Append(fetched, [day |-> di, source |-> modules[mi],
                                         result |-> result])
          /\ all_rows' = all_rows \o RowsOf(result, di, modules[mi])
          /\ err_lines' = IF result = "raise" THEN err_lines + 1 ELSE err_lines
          /\ di' = to[1]
          /\ mi' = to[2]
          /\ d_pc' = IF to[1] > ndays THEN "after_loop" ELSE "loop"
  /\ UNCHANGED <<ndays, modules, reported, appended, unconfigured>>
  /\ UNCHANGED <<sheetVars, pickVars, retryVars, garminVars, restVars>>

\* lines 161-162: the one append_rows call of the run
CallAppendRows ==
  /\ d_pc = "after_loop"
  /\ all_rows # <<>>
  /\ append_rows(all_rows)
  /\ d_pc' = "appending"
  /\ appended' = appended + 1
  /\ UNCHANGED <<ndays, modules, di, mi, all_rows, fetched, err_lines, reported,
                 unconfigured>>
  /\ UNCHANGED <<pickVars, retryVars, garminVars, restVars>>

\* lines 164-165
NothingToWrite ==
  /\ d_pc = "after_loop"
  /\ all_rows = <<>>
  /\ d_pc' = "done"
  /\ UNCHANGED <<ndays, modules, di, mi, all_rows, fetched, err_lines, reported,
                 appended, unconfigured>>
  /\ UNCHANGED <<sheetVars, pickVars, retryVars, garminVars, restVars>>

\* as ReportedCount with the rows that were new to the store
ReportedCountOfNewRows(rs) == Len(to_append)

\* line 163: len(all_rows)
ReportedCount(rs) == Len(rs)

\* line 163, or the error of append_rows leaving _do_range
AppendRowsEnded ==
  /\ d_pc = "appending"
  /\ pc = "idle"
  /\ \/ /\ outcome = "returned"
        /\ reported' = ReportedCount(all_rows)
        /\ d_pc' = "done"
     \/ /\ outcome = "raised"
        /\ reported' = reported
        /\ d_pc' = "raised"
  /\ UNCHANGED <<ndays, modules, di, mi, all_rows, fetched, err_lines, appended,
                 unconfigured>>
  /\ UNCHANGED <<sheetVars, pickVars, retryVars, garminVars, restVars>>

RangeNext ==
  \/ FetchDay
  \/ CallAppendRows
  \/ NothingToWrite
  \/ AppendRowsEnded
  \/ SheetStep

-----------------------------------------------------------------------------
(* garmin.fetch_day in online mode, lines 120-190 and 306-333: the login *)
(* and the five data requests, each one _retry_with_backoff call         *)

GarminRequests ==
  <<"garmin_daily", "garmin_sleep", "garmin_training_readiness",
    "garmin_body_battery", "garmin_hrv">>

NoPayloads == [i \in 1..Len(GarminRequests) |-> "none"]

\* a _retry_with_backoff call with the default keyword arguments begins
RetryCall ==
  /\ r_pc' = "loop"
  /\ max_attempts' = DefaultMaxAttempts
  /\ base_delay' = DefaultBaseDelay
  /\ max_delay' = DefaultMaxDelay
  /\ attempt' = 0
  /\ last_err' = NoErr
  /\ is_rl' = FALSE
  /\ t_attempt' = 0
  /\ t_is_rl' = FALSE
  /\ t_delay' = 0
  /\ delay' = 0
  /\ jitter' = 0
  /\ sleep_s' = 0
  /\ prev_delay' = 0
  /\ ncalls' = 0
  /\ nsleeps' = 0
  /\ raised_err' = NoErr

\* lines 147-150 (and 159-162, 166-171, 174-180, 183-189): the except
\* branch of a _fetch_* function returns {}
OnExhausted(i) ==
  [pc |-> IF i < Len(GarminRequests) THEN "fetch" ELSE "build",
   payload |-> [g_payload EXCEPT ![i] = "empty"]]

\* _login_client, lines 120-136: the credentials, then the login call
GarminLogin ==
  /\ g_pc = "start"
  /\ IF g_creds
       THEN g_pc' = "login" /\ RetryCall
       ELSE g_pc' = "raised" /\ UNCHANGED retryVars
  /\ UNCHANGED <<g_creds, g_i, g_payload, g_rows>>
  /\ UNCHANGED <<sheetVars, pickVars, rangeVars, restVars>>

\* line 136: the login call ended; its error leaves fetch_day (line 322)
GarminLoginEnded ==
  /\ g_pc = "login"
  /\ r_pc \in {"returned", "raised"}
  /\ IF r_pc = "returned"
       THEN g_pc' = "fetch" /\ g_i' = 1
       ELSE g_pc' = "raised" /\ g_i' = g_i
  /\ r_pc' = "off"
  /\ UNCHANGED <<max_attempts, base_delay, max_delay, attempt, last_err, is_rl, t_attempt, t_is_rl, t_delay,
                 delay, jitter, sleep_s, prev_delay, ncalls, nsleeps, raised_err>>
  /\ UNCHANGED <<g_creds, g_payload, g_rows>>
  /\ UNCHANGED <<sheetVars, pickVars, rangeVars, restVars>>

\* lines 324-328: the next _fetch_* function calls _retry_with_backoff
GarminRequest ==
  /\ g_pc = "fetch"
  /\ r_pc = "off"
  /\ RetryCall
  /\ UNCHANGED garminVars
  /\ UNCHANGED <<sheetVars, pickVars, rangeVars, restVars>>

\* the _retry_with_backoff call of a _fetch_* function ended
GarminRequestEnded ==
  /\ g_pc = "fetch"
  /\ r_pc \in {"returned", "raised"}
  /\ IF r_pc = "returned"
       THEN /\ g_payload' = [g_payload EXCEPT ![g_i] = "data"]
            /\ g_pc' = IF g_i < Len(GarminRequests) THEN "fetch" ELSE "build"
       ELSE /\ g_payload' = OnExhausted(g_i).payload
            /\ g_pc' = OnExhausted(g_i).pc
  /\ g_i' = IF g_i < Len(GarminRequests) THEN g_i + 1 ELSE g_i
  /\ r_pc' = "off"
  /\ UNCHANGED <<max_attempts, base_delay, max_delay, attempt, last_err, is_rl, t_attempt, t_is_rl, t_delay,
                 delay, jitter, sleep_s, prev_delay, ncalls, nsleeps, raised_err>>
  /\ UNCHANGED <<g_creds, g_rows>>
  /\ UNCHANGED <<sheetVars, pickVars, rangeVars, restVars>>

\* lines 335-455: the row is built from the payloads there are; without
\* any value fetch_day returns []
GarminBuildRow ==
  /\ g_pc = "build"
  /\ g_rows' = IF \E i \in 1..Len(GarminRequests) : g_payload[i] = "data"
                 THEN "row" ELSE "empty"
  /\ g_pc' = "returned"
  /\ UNCHANGED <<g_creds, g_i, g_payload>>
  /\ UNCHANGED <<sheetVars, pickVars, retryVars, rangeVars, restVars>>

GarminNext ==
  \/ GarminLogin
  \/ GarminLoginEnded
  \/ GarminRequest
  \/ GarminRequestEnded
  \/ GarminBuildRow
  \/ RetryNext

-----------------------------------------------------------------------------
(* utils.py: the unit conversions.  Seconds and meters are integers; a     *)
(* speed is in cm/s; a result with two decimals is in hundredths.          *)

\* Python's None where the other values are non-negative numbers
NoValue == 0 - 1

\* the ZeroDivisionError of a float division
ZeroDivisionError == 0 - 2

\* round(x) of Python 3 for x = n / d: the nearest integer, a tie to the
\* even one
round(n, d) ==
  LET q == n \div d
      r == n % d
  IN IF 2 * r < d THEN q
     ELSE IF 2 * r > d THEN q + 1
     ELSE IF q % 2 = 0 THEN q ELSE q + 1

\* Decimal(str(n / d)).quantize(Decimal("0.01"), rounding=ROUND_HALF_UP), in
\* hundredths: str gives the shortest decimal of the float, which is never
\* nearer to a tie than the quotient itself
quantize(n, d) == (2 * 100 * n + d) \div (2 * d)

\* as round_2dp with the rounding of round()
round_2dp_half_even(n, d) ==
  IF n = NoValue THEN NoValue ELSE round(100 * n, d)

\* lines 26-30, for the value n / d
round_2dp(n, d) ==
  IF n = NoValue THEN NoValue ELSE quantize(n, d)

\* lines 33-36
seconds_to_minutes(value_seconds) ==
  IF value_seconds = NoValue THEN NoValue
  ELSE round(value_seconds, 60)

\* lines 39-42
meters_to_km(value_meters) ==
  IF value_meters = NoValue THEN NoValue
  ELSE round_2dp(value_meters, 1000)

\* lines 45-49, for kmh = n / d
speed_kmh_to_pace_min_per_km(n, d) ==
  IF n = NoValue \/ n = 0 THEN NoValue
  ELSE round_2dp(60 * d, n)

\* as mps_to_speed_and_pace without the test for 0
mps_to_speed_and_pace_unguarded(mps) ==
  IF mps = NoValue THEN <<NoValue, NoValue>>
  ELSE <<round_2dp(36 * mps, 1000),
         IF mps = 0 THEN ZeroDivisionError ELSE round_2dp(60 * 1000, 36 * mps)>>

\* lines 52-57: mps cm/s are 36 * mps / 1000 km/h
mps_to_speed_and_pace(mps) ==
  IF mps = NoValue \/ mps = 0 THEN <<NoValue, NoValue>>
  ELSE <<round_2dp(36 * mps, 1000),
         speed_kmh_to_pace_min_per_km(36 * mps, 1000)>>

-----------------------------------------------------------------------------
(* utils.normalize_workout_type and models.UnifiedRow.  A str is the       *)
(* sequence of its characters.                                             *)

\* the argument None of a function that takes a str
NoneStr == <<None>>

UpperCase == <<"A", "B", "C", "D", "E", "F", "G", "H", "I", "J", "K", "L", "M", "N", "O", "P", "Q", "R", "S", "T", "U", "V", "W", "X", "Y", "Z">>
LowerCase == <<"a", "b", "c", "d", "e", "f", "g", "h", "i", "j", "k", "l", "m", "n", "o", "p", "q", "r", "s", "t", "u", "v", "w", "x", "y", "z">>

\* str.lower() on one character
lower_char(c) ==
  IF \E i \in 1..Len(UpperCase) : UpperCase[i] = c
    THEN LowerCase[CHOOSE i \in 1..Len(UpperCase) : UpperCase[i] = c]
    ELSE c

\* str.lower()
lower(s) == [i \in 1..Len(s) |-> lower_char(s[i])]

\* str.replace(old, new) for one-character old and new
replace(s, old, new) == [i \in 1..Len(s) |-> IF s[i] = old THEN new ELSE s[i]]

\* models.py lines 8-17
UnifiedWorkoutType ==
  {"run", "ride", "swim", "strength", "walk", "hike", "yoga", "other"}

\* utils.py lines 87-99: the keys of NORMALIZED_WORKOUT_TYPES
NORMALIZED_WORKOUT_TYPES ==
  (<<"r", "u", "n">> :> "run")
  @@ (<<"r", "u", "n", "n", "i", "n", "g">> :> "run")
  @@ (<<"r", "i", "d", "e">> :> "ride")
  @@ (<<"c", "y", "c", "l", "i", "n", "g">> :> "ride")
  @@ (<<"b", "i", "k", "e">> :> "ride")
  @@ (<<"s", "w", "i", "m">> :> "swim")
  @@ (<<"s", "t", "r", "e", "n", "g", "t", "h">> :> "strength")
  @@ (<<"w", "e", "i", "g", "h", "t", "_", "t", "r", "a", "i", "n", "i", "n", "g">> :> "strength")
  @@ (<<"w", "a", "l", "k">> :> "walk")
  @@ (<<"h", "i", "k", "e">> :> "hike")
  @@ (<<"y", "o", "g", "a">> :> "yoga")

\* dict.get(key, default)
get(dict, key, default) == IF key \in DOMAIN dict THEN dict[key] ELSE default

\* as normalize_workout_type, looking the value up as it is written
normalize_workout_type_verbatim(value) ==
  IF value \in {NoneStr, <<>>} THEN None
  ELSE get(NORMALIZED_WORKOUT_TYPES, value, "other")

\* utils.py lines 102-106
normalize_workout_type(value) ==
  IF value \in {NoneStr, <<>>} THEN None
  ELSE LET key == lower(replace(replace(value, "-", "_"), " ", "_"))
       IN get(NORMALIZED_WORKOUT_TYPES, key, "other")

\* workout types as providers write them
WorkoutTypeSamples ==
  { <<"R", "u", "n">>,
    <<"R", "U", "N", "N", "I", "N", "G">>,
    <<"C", "y", "c", "l", "i", "n", "g">>,
    <<"b", "i", "k", "e">>,
    <<"W", "e", "i", "g", "h", "t", " ", "T", "r", "a", "i", "n", "i", "n", "g">>,
    <<"w", "e", "i", "g", "h", "t", "-", "t", "r", "a", "i", "n", "i", "n", "g">>,
    <<"W", "e", "i", "g", "h", "t", "_", "T", "r", "a", "i", "n", "i", "n", "g">>,
    <<"e", "-", "b", "i", "k", "e">>,
    <<"r", "o", "w", "i", "n", "g">>,
    <<"T", "r", "a", "i", "l", " ", "R", "u", "n", "n", "i", "n", "g">>,
    <<"y", "o", "g", "a", " ">>,
    <<"H", "I", "K", "E">>,
    <<"S", "t", "r", "e", "n", "g", "t", "h">>,
    <<"s", "w", "i", "m">>,
    <<"w", "a", "l", "k">>,
    <<"r", "i", "d", "e">> }

\* models.py lines 21-43: the fields of UnifiedRow
UnifiedRowFields ==
  {"date", "source", "bedtime", "wake_time", "sleep_duration_min",
   "sleep_score", "rhr_bpm", "hrv_ms", "readiness_or_body_battery_score",
   "health_score", "steps", "active_calories", "activity_score",
   "workout_type", "workout_duration_min", "workout_active_calories",
   "workout_avg_hr_bpm", "workout_max_hr_bpm", "distance_km",
   "pace_min_per_km", "avg_speed_kmh", "workout_or_strain_score",
   "source_record_id"}

\* UnifiedRow(date=date, source=source): every other field is None
UnifiedRow(date, source) ==
  [f \in UnifiedRowFields |->
     CASE f = "date" -> date [] f = "source" -> source [] OTHER -> None]

\* rows given to as_row: one whose every field holds its own name, and a
\* row of Day1 with one field set
UnifiedRows ==
  {[f \in UnifiedRowFields |-> f]}
  \cup {[UnifiedRow(Day1, "oura") EXCEPT ![f] = v] :
          f \in UnifiedRowFields \ {"date", "source"}, v \in {"0", "x"}}

\* as UnifiedRow_as_row with lines 66 and 67 exchanged
UnifiedRow_as_row_exchanged(self) ==
  << self.date, self.source, self.bedtime, self.wake_time,
     self.sleep_duration_min, self.sleep_score, self.rhr_bpm, self.hrv_ms,
     self.readiness_or_body_battery_score, self.health_score, self.steps,
     self.active_calories, self.activity_score, self.workout_type,
     self.workout_duration_min, self.workout_active_calories,
     self.workout_avg_hr_bpm, self.workout_max_hr_bpm, self.distance_km,
     self.avg_speed_kmh, self.pace_min_per_km, self.workout_or_strain_score,
     self.source_record_id >>

\* models.py lines 45-70
UnifiedRow_as_row(self) ==
  << self.date, self.source, self.bedtime, self.wake_time,
     self.sleep_duration_min, self.sleep_score, self.rhr_bpm, self.hrv_ms,
     self.readiness_or_body_battery_score, self.health_score, self.steps,
     self.active_calories, self.activity_score, self.workout_type,
     self.workout_duration_min, self.workout_active_calories,
     self.workout_avg_hr_bpm, self.workout_max_hr_bpm, self.distance_km,
     self.pace_min_per_km, self.avg_speed_kmh, self.workout_or_strain_score,
     self.source_record_id >>

-----------------------------------------------------------------------------
(* One call of a pure function *)

MaxSeconds == 400   \* greatest argument of seconds_to_minutes
MaxMeters == 1100   \* greatest argument of meters_to_km
MaxSpeed == 600     \* greatest argument of mps_to_speed_and_pace, in cm/s
MaxChars == 3       \* length of the generated workout-type strings

\* characters of the generated workout-type strings
TypeChars == {"r", "U", "n", "-", " "}

UtilArgs(fn) ==
  CASE fn = "seconds_to_minutes" -> {NoValue} \cup 0..MaxSeconds
    [] fn = "meters_to_km" -> {NoValue} \cup 0..MaxMeters
    [] fn = "mps_to_speed_and_pace" -> {NoValue} \cup 0..MaxSpeed
    [] fn = "normalize_workout_type" ->
         {NoneStr} \cup WorkoutTypeSamples \cup SeqsUpTo(TypeChars, MaxChars)
    [] fn = "as_row" -> UnifiedRows

UtilFunctions ==
  {"seconds_to_minutes", "meters_to_km", "mps_to_speed_and_pace",
   "normalize_workout_type", "as_row"}

Returns(fn, res) ==
  /\ u_fn = fn
  /\ ~u_done
  /\ u_res' = res
  /\ u_done' = TRUE
  /\ UNCHANGED <<u_fn, u_arg, coreVars, metricVars, scriptVars, ultraVars,
                 concVars, moreVars>>

CallSecondsToMinutes ==
  Returns("seconds_to_minutes", seconds_to_minutes(u_arg))

CallMetersToKm == Returns("meters_to_km", meters_to_km(u_arg))

CallMpsToSpeedAndPace ==
  Returns("mps_to_speed_and_pace", mps_to_speed_and_pace(u_arg))

CallNormalizeWorkoutType ==
  Returns("normalize_workout_type", normalize_workout_type(u_arg))

CallAsRow == Returns("as_row", UnifiedRow_as_row(u_arg))

UtilNext ==
  \/ CallSecondsToMinutes
  \/ CallMetersToKm
  \/ CallMpsToSpeedAndPace
  \/ CallNormalizeWorkoutType
  \/ CallAsRow

-----------------------------------------------------------------------------
(* The daily metrics of a canonical row: how oura.fetch_day (lines         *)
(* 258-278), polar._fetch_activity_via_transactions (lines 304-357) and    *)
(* garmin.fetch_day (lines 378-452) resolve them from the payloads.  A     *)
(* payload field is NoValue when it is absent or null.                     *)

MaxItems == 2     \* items of a Polar activity transaction

\* a field of a payload: absent, a measured zero, a measured value
MetricValues == {NoValue, 0, 52}

\* bool(v) of Python for a number or None
NonZero(v) == v \notin {NoValue, 0}

\* a or b
Or(a, b) == IF NonZero(a) THEN a ELSE b

\* _coalesce(*vals) of garmin.py lines 19-23 and polar.py: the first value
\* that is not None
RECURSIVE _coalesce(_)
_coalesce(vals) ==
  IF vals = <<>> THEN NoValue
  ELSE IF Head(vals) # NoValue THEN Head(vals) ELSE _coalesce(Tail(vals))

\* int(v) if v else None
IntIfNonZero(v) == IF NonZero(v) THEN v ELSE NoValue

\* the payloads Oura's row is built from: the chosen sleep period, the
\* daily_sleep document and the daily_activity document
OuraPayloads ==
  [lowest_heart_rate : MetricValues, average_bpm : MetricValues,
   daily_average_hrv : MetricValues, period_average_hrv : MetricValues,
   steps : MetricValues, active_calories : MetricValues]

\* oura.py lines 258-259 and 270-275
OuraRow(p) ==
  LET rhr == Or(p.lowest_heart_rate, p.average_bpm)
      hrv == Or(p.daily_average_hrv, p.period_average_hrv)
  IN [rhr_bpm |-> IntIfNonZero(rhr),
      hrv_ms |-> IntIfNonZero(hrv),
      steps |-> p.steps,
      active_calories |-> p.active_calories]

\* the fields of Garmin's sleep window, sleep document and daily summary
GarminPayloads ==
  [lowestHeartRate : MetricValues, minHeartRate : {NoValue},
   sleepLowestHeartRate : {NoValue, 52}, restingHeartRate : MetricValues,
   steps : MetricValues, totalSteps : {NoValue, 52},
   activeKilocalories : MetricValues, activeCalories : {NoValue, 52},
   avgRmssd : MetricValues, lastNightAvg : {NoValue, 52}]

\* garmin.py lines 372-375, 384-391, 411-419 and 266-303
GarminRow(p) ==
  LET lowest_hr == _coalesce(<<p.lowestHeartRate, p.minHeartRate,
                               p.sleepLowestHeartRate>>)
  IN [rhr_bpm |-> _coalesce(<<lowest_hr, p.restingHeartRate>>),
      hrv_ms |-> _coalesce(<<p.avgRmssd, p.lastNightAvg>>),
      steps |-> _coalesce(<<p.steps, p.totalSteps>>),
      active_calories |-> _coalesce(<<p.activeKilocalories, p.activeCalories>>)]

\* the "samples" of an item of a Polar activity transaction, when it is a
\* list
PolarSamples ==
  {<<>>, <<[steps |-> 0, activeCalories |-> 0]>>,
   <<[steps |-> 52, activeCalories |-> 52]>>,
   <<[steps |-> NoValue, activeCalories |-> NoValue]>>}

\* the items of the requested day; sampled: it["samples"] is a list
PolarItems ==
  [steps : MetricValues, active_calories : MetricValues,
   sampled : {FALSE}, samples : {<<>>}]
  \cup [steps : MetricValues, active_calories : MetricValues,
        sampled : {TRUE}, samples : PolarSamples]

RECURSIVE SumOver(_, _)
\* sum(int(samp.get(f) or 0) for samp in samples)
SumOver(samples, f) ==
  IF samples = <<>> THEN 0
  ELSE Or(Head(samples)[f], 0) + SumOver(Tail(samples), f)

\* polar.py lines 330-343: the steps and calories of one item
ItemSteps(it) ==
  IF it.steps = NoValue /\ it.sampled
    THEN SumOver(it.samples, "steps") ELSE it.steps

ItemCalories(it) ==
  IF it.active_calories = NoValue /\ it.sampled
    THEN LET kc == SumOver(it.samples, "activeCalories")
         IN IF kc # 0 THEN kc ELSE NoValue
    ELSE it.active_calories

RECURSIVE PolarFold(_, _, _)
\* polar.py lines 322-346: the loop over the items
PolarFold(items, steps, active) ==
  IF items = <<>> THEN [steps |-> steps, active_calories |-> active]
  ELSE PolarFold(Tail(items), Or(steps, ItemSteps(Head(items))),
                 Or(active, ItemCalories(Head(items))))

\* polar.py lines 304-357, one endpoint that answers with `items`
PolarActivity(items) ==
  LET r == PolarFold(items, NoValue, NoValue)
  IN [rhr_bpm |-> NoValue, hrv_ms |-> NoValue,
      steps |-> r.steps, active_calories |-> r.active_calories]

MetricPayloads(adapter) ==
  CASE adapter = "oura" -> OuraPayloads
    [] adapter = "garmin" -> GarminPayloads
    [] adapter = "polar" -> SeqsUpTo(PolarItems, MaxItems)

NoRow == [rhr_bpm |-> NoValue, hrv_ms |-> NoValue, steps |-> NoValue,
          active_calories |-> NoValue]

Resolves(adapter, row) ==
  /\ m_adapter = adapter
  /\ ~m_done
  /\ m_row' = row
  /\ m_done' = TRUE
  /\ UNCHANGED <<m_adapter, m_payload, coreVars, utilVars, scriptVars, ultraVars,
                 concVars, moreVars>>

ResolveOura == Resolves("oura", OuraRow(m_payload))

ResolveGarmin == Resolves("garmin", GarminRow(m_payload))

ResolvePolar == Resolves("polar", PolarActivity(m_payload))

MetricNext == ResolveOura \/ ResolveGarmin \/ ResolvePolar

-----------------------------------------------------------------------------
(* scripts/push_garmin_to_sheet.py and scripts/push_polar_to_sheet.py:     *)
(* upsert_rows, the same function in both, every request succeeding        *)

MaxDates == 3      \* dates of one push_garmin_to_sheet run
MaxCalls == 2     \* upsert_rows calls of one run of the model

\* the rows <source>.fetch_day returns: one row per day
ScriptRows(source) ==
  {as_row(d, source, b, None) : d \in {Day1, Day2}, b \in {"23:10:00", "22:05:00"}}

\* main collects fetch_day(d) over a range of days: no two rows of a day
ScriptBatches(source) ==
  {b \in SeqsUpTo(ScriptRows(source), MaxBatch) :
     /\ b # <<>>
     /\ \A i, j \in 1..Len(b) : i # j => b[i][1] # b[j][1]}

\* the tab before the first call: empty, with the header, with a row of
\* the source, with a row of another source
ScriptSheets(source) ==
  {<<>>, <<HEADER>>,
   <<HEADER, Incoming(as_row(Day1, source, "21:00:00", None))>>,
   <<HEADER, Incoming(as_row(Day1, "oura", "21:00:00", None))>>}

\* _ensure_header, garmin script lines 79-92: row 1 is read and, when it
\* is not the header, written
_ensure_header(sh) ==
  IF sh = <<>> \/ TrimRow(sh[1]) # HEADER THEN UpdateA1(sh, HEADER) ELSE sh

\* _pad_to_headers, garmin script lines 114-118; a None is written as an
\* empty cell
_pad_to_headers(row) == Incoming(row)

\* garmin script line 130, polar script line 147: key = f"{row[0]}|{row[1]}"
UpsertKey(row) == <<row[1], row[2]>>

\* lines 125-136: the loop that splits the rows
UpsertPlanUpdate(ex, batch) ==
  LET padded == [i \in 1..Len(batch) |-> _pad_to_headers(batch[i])]
      found == SelectSeq(padded, LAMBDA row : UpsertKey(row) \in DOMAIN ex)
  IN [i \in 1..Len(found) |-> [row_idx |-> ex[UpsertKey(found[i])], values |-> found[i]]]

UpsertPlanAppend(ex, batch) ==
  LET padded == [i \in 1..Len(batch) |-> _pad_to_headers(batch[i])]
  IN SelectSeq(padded, LAMBDA row : UpsertKey(row) \notin DOMAIN ex)

\* upsert_rows, garmin script lines 121-168 and polar script lines 139-184:
\* the tab after the call
upsert_rows(sh, batch) ==
  LET headed == _ensure_header(sh)
      ex == _read_existing_map(headed)
      updated == BatchUpdateValues(headed, UpsertPlanUpdate(ex, batch))
      appended_to == AppendValues(updated, UpsertPlanAppend(ex, batch))
  IN SortRange(appended_to)

Upsert(script) ==
  /\ s_script = script
  /\ s_calls < MaxCalls
  /\ s_sheet' = upsert_rows(s_sheet, s_rows)
  /\ s_calls' = s_calls + 1
  /\ UNCHANGED <<s_script, s_rows, s_sheet0, coreVars, utilVars, metricVars,
                 ultraVars, concVars, moreVars>>

\* main of push_garmin_to_sheet.py, line 238
UpsertGarmin == Upsert("garmin")

\* main of push_polar_to_sheet.py
UpsertPolar == Upsert("polar")

ScriptNext == UpsertGarmin \/ UpsertPolar

-----------------------------------------------------------------------------
(* sources/ultrahuman.py: UltrahumanClient._get, lines 85-139, one HTTP    *)
(* request per step; every request may fail                                *)

\* what a data request answers: 0 stands for an error of requests.get
\* itself
Statuses == {0, 200, 401, 500}

\* refresh_access_token, lines 85-104: RuntimeError without client id and
\* secret (no request is sent), else the POST succeeds or raise_for_status
\* raises
RefreshResults == IF h_creds THEN {"ok", "HTTPError"} ELSE {"RuntimeError"}

\* _apply_token_response, lines 112-114, after a refresh that ended r: only
\* a numeric expires_in sets _expires_at, e then says whether the new time
\* has already passed (expires_in of 60 or less)
ApplyTokenResponse(r, e, expires_in) ==
  /\ expires_in => r = "ok"
  /\ ~expires_in => e = h_expired
  /\ h_expired' = e
  /\ h_unknown' = (h_unknown /\ ~expires_in)

\* as RetryOn401 with `while` for the `if` of line 135
RetryOn401Loop(status, refresh_token, gets) == status = 401 /\ refresh_token

\* line 135, reached once, after the first request
RetryOn401(status, refresh_token, gets) ==
  status = 401 /\ refresh_token /\ gets = 1

\* _headers, lines 116-127: without a token that is known to be valid the
\* refresh is tried and its error swallowed; without any access token
\* RuntimeError
Headers ==
  /\ h_pc = "headers"
  /\ \E r \in (IF (~h_access \/ h_expired) /\ h_refresh
                 THEN RefreshResults ELSE {"skipped"}),
        e \in BOOLEAN, expires_in \in BOOLEAN :
       /\ h_access' = (h_access \/ r = "ok")
       /\ ApplyTokenResponse(r, e, expires_in)
       /\ h_posts' = IF r \in {"ok", "HTTPError"} THEN h_posts + 1 ELSE h_posts
       /\ h_tried' = IF r = "skipped" THEN h_tried ELSE h_tried + 1
       /\ IF h_access \/ r = "ok"
            THEN h_pc' = "get" /\ h_result' = h_result
            ELSE h_pc' = "done" /\ h_result' = "raised"
  /\ UNCHANGED <<h_refresh, h_creds, h_gets, h_refreshed, h_first, h_last>>
  /\ UNCHANGED <<coreVars, utilVars, metricVars, scriptVars, concVars, moreVars>>

\* lines 133 and 137-139: requests.get, and after the last one
\* raise_for_status
Get ==
  /\ h_pc = "get"
  /\ \E status \in Statuses :
       /\ h_gets' = h_gets + 1
       /\ h_last' = status
       /\ h_first' = IF h_gets = 0 THEN status ELSE h_first
       /\ IF status # 0 /\ RetryOn401(status, h_refresh, h_gets + 1)
            THEN h_pc' = "refresh" /\ h_result' = h_result
            ELSE /\ h_pc' = "done"
                 /\ h_result' = IF status = 200 THEN "returned" ELSE "raised"
  /\ UNCHANGED <<h_access, h_refresh, h_creds, h_expired, h_posts, h_refreshed,
                 h_unknown, h_tried>>
  /\ UNCHANGED <<coreVars, utilVars, metricVars, scriptVars, concVars, moreVars>>

\* line 136: refresh_access_token(), its error leaves _get
RefreshOn401 ==
  /\ h_pc = "refresh"
  /\ \E r \in RefreshResults, e \in BOOLEAN, expires_in \in BOOLEAN :
       /\ h_refreshed' = Append(h_refreshed, r)
       /\ h_posts' = IF r \in {"ok", "HTTPError"} THEN h_posts + 1 ELSE h_posts
       /\ h_access' = (h_access \/ r = "ok")
       /\ ApplyTokenResponse(r, e, expires_in)
       /\ IF r = "ok"
            THEN h_pc' = "headers" /\ h_result' = h_result
            ELSE h_pc' = "done" /\ h_result' = "raised"
  /\ UNCHANGED <<h_refresh, h_creds, h_gets, h_first, h_last, h_tried>>
  /\ UNCHANGED <<coreVars, utilVars, metricVars, scriptVars, concVars, moreVars>>

UltraNext == Headers \/ Get \/ RefreshOn401

-----------------------------------------------------------------------------
(* sources/ross.py: RossClient._post, lines 36-79, one HTTP request per    *)
(* step; every request may fail                                            *)

\* what a data request answers: "error" is an error of requests.post
\* itself, "refused" a 200 whose payload has success false
RossAnswers == {"error", "200", "refused", "401", "500"}

\* how _login ends, lines 36-56.  Without partner id, email or password
\* RuntimeError, no request sent.  Else "error": the request fails, or the
\* answer is not ok (line 49); "ok": tokens stored, expires_in above the
\* buffer of 60; "short": tokens stored, expires_in of 60 or less;
\* "notoken": the answer has no access_token; "ValueError": the token is
\* stored and int(expires_in) raises on line 56
RossLoginResults ==
  IF ro_config THEN {"ok", "short", "notoken", "error", "ValueError"}
  ELSE {"RuntimeError"}

LoginRaises(l) == l \in {"error", "ValueError", "RuntimeError"}

\* lines 52-56: the fields _login leaves
LoginApplies(l) ==
  /\ ro_token' = CASE l \in {"ok", "short", "ValueError"} -> TRUE
                  [] l = "notoken" -> FALSE
                  [] OTHER -> ro_token
  /\ ro_expired' = CASE l \in {"ok", "notoken"} -> FALSE
                    [] l = "short" -> TRUE
                    [] OTHER -> ro_expired

\* as RossRetryOn401 with `while` for the `if` of line 71
RossRetryOn401Loop(answer, posts) == answer = "401"

\* line 71, reached once, after the first request
RossRetryOn401(answer, posts) == answer = "401" /\ posts = 1

\* _headers, lines 58-64: without a token known to be valid _login is
\* called and its error leaves _post
RossHeaders ==
  /\ ro_pc = "headers"
  /\ IF ~ro_token \/ ro_expired
       THEN \E l \in RossLoginResults :
              /\ ro_logins' = Append(ro_logins, <<"_headers", l>>)
              /\ LoginApplies(l)
              /\ IF LoginRaises(l)
                   THEN ro_pc' = "done" /\ ro_result' = "raised"
                   ELSE ro_pc' = "post" /\ ro_result' = ro_result
       ELSE /\ ro_pc' = "post"
            /\ UNCHANGED <<ro_logins, ro_token, ro_expired, ro_result>>
  /\ UNCHANGED <<ro_config, ro_posts, ro_first, ro_last, baseVars, rollaVars,
                 pushVars>>

\* lines 68 and 73-79: requests.post, and after the last one
\* raise_for_status and the success test
RossPost ==
  /\ ro_pc = "post"
  /\ \E answer \in RossAnswers :
       /\ ro_posts' = ro_posts + 1
       /\ ro_last' = answer
       /\ ro_first' = IF ro_posts = 0 THEN answer ELSE ro_first
       /\ IF RossRetryOn401(answer, ro_posts + 1)
            THEN ro_pc' = "login" /\ ro_result' = ro_result
            ELSE /\ ro_pc' = "done"
                 /\ ro_result' = IF answer = "200" THEN "returned" ELSE "raised"
  /\ UNCHANGED <<ro_token, ro_expired, ro_config, ro_logins, baseVars,
                 rollaVars, pushVars>>

\* line 72: _login(), its error leaves _post
RossLoginOn401 ==
  /\ ro_pc = "login"
  /\ \E l \in RossLoginResults :
       /\ ro_logins' = Append(ro_logins, <<"_post", l>>)
       /\ LoginApplies(l)
       /\ IF LoginRaises(l)
            THEN ro_pc' = "done" /\ ro_result' = "raised"
            ELSE ro_pc' = "headers" /\ ro_result' = ro_result
  /\ UNCHANGED <<ro_config, ro_posts, ro_first, ro_last, baseVars, rollaVars,
                 pushVars>>

RossNext == RossHeaders \/ RossPost \/ RossLoginOn401

-----------------------------------------------------------------------------
(* sources/rollaone.py: RollaOneClient._login, lines 45-102, one payload   *)
(* variant per step                                                        *)

\* line 52: the payload variants
LoginVariants == 3

\* the answer to one variant: "exception" for an error of the request, of
\* raise_for_status or of r.json(); "list" for JSON that is no dict; else a
\* dict: "empty" without any token, "token", "access_token" and
\* "data.token" with the token under that key only, "blank" with
\* {"token": ""}, "blank_access" with {"token": "", "access_token": T}
RollaAnswers ==
  {"exception", "list", "empty", "token", "access_token", "data.token", "blank",
   "blank_access"}

\* line 69: isinstance(data, dict)
IsDict(answer) == answer \notin {"exception", "list", "unbound", "none"}

\* lines 73-79: the answer carries a token under one of the three keys
YieldsToken(answer) ==
  answer \in {"token", "access_token", "data.token", "blank_access"}

\* `not self._token`
NoToken(token) == token \in {"none", "blank"}

\* line 90, self._token = data["token"]: the value stored, or the error
Line90(data, token) ==
  CASE data = "unbound" -> "UnboundLocalError"
    [] data = "list" -> "TypeError"
    [] data = "token" -> "new"
    [] data \in {"blank", "blank_access"} -> "blank"
    [] OTHER -> "KeyError"

\* lines 46-47
LoginStart ==
  /\ l_pc = "start"
  /\ IF l_config
       THEN l_pc' = "loop" /\ l_result' = l_result
       ELSE l_pc' = "done" /\ l_result' = "RuntimeError: credentials"
  /\ UNCHANGED <<l_config, l_token, l_token0, l_auth, l_seen, l_data, l_last_data>>
  /\ UNCHANGED <<baseVars, rossVars, pushVars>>

\* lines 60-83: one pass of the loop
LoginAttempt ==
  /\ l_pc = "loop"
  /\ \E answer \in RollaAnswers :
       LET parsed == answer # "exception"
           found == parsed /\ YieldsToken(answer)
       IN /\ l_seen' = Append(l_seen, answer)
          /\ l_data' = IF parsed THEN answer ELSE l_data
          /\ l_last_data' = IF ~parsed THEN l_last_data
                            ELSE IF IsDict(answer) THEN answer ELSE "none"
          /\ l_token' = IF found THEN "new" ELSE l_token
          /\ l_pc' = IF found \/ Len(l_seen) + 1 = LoginVariants
                       THEN "after_loop" ELSE "loop"
  /\ UNCHANGED <<l_config, l_token0, l_auth, l_result>>
  /\ UNCHANGED <<baseVars, rossVars, pushVars>>

\* lines 85-102
LoginFinish ==
  /\ l_pc = "after_loop"
  /\ l_pc' = "done"
  /\ IF NoToken(l_token)
       THEN /\ l_result' = "RuntimeError: login failed"
            /\ UNCHANGED <<l_token, l_auth>>
       ELSE LET stored == Line90(l_data, l_token)
            IN IF stored \in {"UnboundLocalError", "TypeError", "KeyError"}
                 THEN l_result' = stored /\ UNCHANGED <<l_token, l_auth>>
                 ELSE /\ l_result' = "returned"
                      /\ l_token' = stored
                      /\ l_auth' = stored
  /\ UNCHANGED <<l_config, l_token0, l_seen, l_data, l_last_data>>
  /\ UNCHANGED <<baseVars, rossVars, pushVars>>

RollaNext == LoginStart \/ LoginAttempt \/ LoginFinish

(***************************************************************************)
(* scripts/push_garmin_to_sheet.py: main, lines 198-239: the loop over     *)
(* the dates, the one long pause, and the single upsert_rows call          *)
(***************************************************************************)

NoStatus == 0   \* getattr(e, "status_code", None) of an exception without one

\* the exceptions garmin.fetch_day raises, by what line 211 reads of them:
\* the tokens str(e).lower() holds and the status_code attribute (lines 211-212)
PushErrors ==
  { [tokens |-> {"429"}, status_code |-> NoStatus],
    [tokens |-> {"rate limit"}, status_code |-> NoStatus],
    [tokens |-> {}, status_code |-> 1015],
    [tokens |-> {}, status_code |-> 500],
    [tokens |-> {}, status_code |-> NoStatus] }

\* what one garmin.fetch_day(d) call does: the number of rows it returns, or
\* the exception it raises
PushFetchResults ==
  { [raised |-> FALSE, rows |-> n] : n \in 0..1 }
    \cup { [raised |-> TRUE, error |-> e] : e \in PushErrors }

\* lines 211-212: the failure is a rate limit
IsRateLimited(e) ==
  \/ e.tokens \cap {"429", "rate limit", "1015"} # {}
  \/ e.status_code \in {429, 1015}

\* as LongPause without the long_pause_done flag
LongPauseEveryTime(rl, long_pause_done) == rl

\* line 214: `if rl and not long_pause_done`
LongPause(rl, long_pause_done) == rl /\ ~long_pause_done

\* lines 209 and 223: all_rows.extend(rows)
Extend(n, f) == IF f.raised THEN n ELSE n + f.rows

\* lines 205 and 229: the next date of the loop, after the pacing sleep
NextDate ==
  /\ pg_i' = pg_i + 1
  /\ pg_pc' = IF pg_i = pg_dates THEN "after_loop" ELSE "loop"

\* lines 205-214: fetch_day(d), its rows kept or its failure logged
PushFetch ==
  /\ pg_pc = "loop"
  /\ \E f \in PushFetchResults :
       /\ pg_fetched' = Append(pg_fetched, <<pg_i, f, FALSE>>)
       /\ pg_all_rows' = Extend(pg_all_rows, f)
       /\ IF f.raised /\ LongPause(IsRateLimited(f.error), pg_done)
            THEN pg_pc' = "pause" /\ pg_i' = pg_i
            ELSE NextDate
  /\ UNCHANGED <<pg_dates, pg_done, pg_pauses, pg_upserts, baseVars, rossVars,
                 rollaVars>>

\* lines 215-218: the long pause
PushPause ==
  /\ pg_pc = "pause"
  /\ pg_pauses' = pg_pauses + 1
  /\ pg_done' = TRUE
  /\ pg_pc' = "retry"
  /\ UNCHANGED <<pg_dates, pg_i, pg_all_rows, pg_fetched, pg_upserts, baseVars,
                 rossVars, rollaVars>>

\* lines 219-229: the one repeat of fetch_day(d) after the pause
PushRetry ==
  /\ pg_pc = "retry"
  /\ \E f \in PushFetchResults :
       /\ pg_fetched' = Append(pg_fetched, <<pg_i, f, TRUE>>)
       /\ pg_all_rows' = Extend(pg_all_rows, f)
  /\ NextDate
  /\ UNCHANGED <<pg_dates, pg_done, pg_pauses, pg_upserts, baseVars, rossVars,
                 rollaVars>>

\* lines 231-239: nothing to push, or the upsert_rows call
PushUpsert ==
  /\ pg_pc = "after_loop"
  /\ pg_upserts' = IF pg_all_rows = 0 THEN pg_upserts
                   ELSE Append(pg_upserts, <<pg_i - 1, pg_all_rows>>)
  /\ pg_pc' = "done"
  /\ UNCHANGED <<pg_dates, pg_i, pg_done, pg_all_rows, pg_fetched, pg_pauses,
                 baseVars, rossVars, rollaVars>>

PushNext == PushFetch \/ PushPause \/ PushRetry \/ PushUpsert

-----------------------------------------------------------------------------
(* Two sheets.append_rows invocations against one store, nothing locking   *)
(* it: the requests of lines 106-151 interleave.  The tab exists and       *)
(* every request succeeds.                                                 *)

Procs == {1, 2}

\* the rows invocation p may be given: one per day, marked by its bedtime
ConcRows(p) ==
  {as_row(d, "oura", IF p = 1 THEN "23:10:00" ELSE "22:05:00", None) : d \in {Day1, Day2}}

ConcBatches(p) == SeqsUpTo(ConcRows(p), MaxBatch)

\* the grid before the invocations: an empty tab, the header, the header
\* and a row of Day1
ConcSheets ==
  {<<>>, <<HEADER>>, <<HEADER, Incoming(as_row(Day1, "oura", "21:00:00", None))>>}

NoPlan == [upd |-> <<>>, app |-> <<>>]

\* a step of p falls into the other invocation when that one has begun and
\* not ended
Inside(q) == c_pc[q] \notin {"idle", "done"}

Steps(p, next) ==
  /\ c_pc' = [c_pc EXCEPT ![p] = next]
  /\ c_overlap' = (c_overlap \/ \E q \in Procs \ {p} : Inside(q))
  /\ UNCHANGED <<c_rows, c_sheet0, coreVars, utilVars, metricVars, scriptVars,
                 ultraVars, moreVars>>

\* line 102: the call; an empty batch returns at once (lines 103-104)
ConcCall(p) ==
  /\ c_pc[p] = "idle"
  /\ Steps(p, IF c_rows[p] = <<>> THEN "done" ELSE "ensure_tab")
  /\ UNCHANGED <<c_sheet, c_plan, c_early, c_wrote>>

\* line 106: _ensure_tab finds the tab
ConcEnsureTab(p) ==
  /\ c_pc[p] = "ensure_tab"
  /\ Steps(p, "read")
  /\ UNCHANGED <<c_sheet, c_plan, c_early, c_wrote>>

\* line 109 and the loop of lines 113-122
ConcRead(p) ==
  /\ c_pc[p] = "read"
  /\ LET ex == _read_existing_map(c_sheet)
         upd == PlanUpdate(ex, c_rows[p])
         app == PlanAppend(ex, c_rows[p])
     IN /\ c_plan' = [c_plan EXCEPT ![p] = [upd |-> upd, app |-> app]]
        /\ Steps(p, AfterRead(upd, app))
  /\ c_early' = IF c_wrote THEN c_early ELSE c_early \cup {p}
  /\ UNCHANGED <<c_sheet, c_wrote>>

\* lines 124-128
ConcBatchUpdate(p) ==
  /\ c_pc[p] = "batch_update"
  /\ c_sheet' = BatchUpdateValues(c_sheet, c_plan[p].upd)
  /\ c_wrote' = TRUE
  /\ Steps(p, IF c_plan[p].app # <<>> THEN "append" ELSE "sheet_id")
  /\ UNCHANGED <<c_plan, c_early>>

\* lines 130-137
ConcAppend(p) ==
  /\ c_pc[p] = "append"
  /\ c_sheet' = AppendValues(c_sheet, c_plan[p].app)
  /\ c_wrote' = TRUE
  /\ Steps(p, "sheet_id")
  /\ UNCHANGED <<c_plan, c_early>>

\* line 140: _get_sheet_id
ConcGetSheetId(p) ==
  /\ c_pc[p] = "sheet_id"
  /\ Steps(p, "sort")
  /\ UNCHANGED <<c_sheet, c_plan, c_early, c_wrote>>

\* lines 141-151: sortRange
ConcSort(p) ==
  /\ c_pc[p] = "sort"
  /\ c_sheet' = SortRange(c_sheet)
  /\ c_wrote' = TRUE
  /\ Steps(p, "done")
  /\ UNCHANGED <<c_plan, c_early>>

ConcNext ==
  \E p \in Procs :
     \/ ConcCall(p)
     \/ ConcEnsureTab(p)
     \/ ConcRead(p)
     \/ ConcBatchUpdate(p)
     \/ ConcAppend(p)
     \/ ConcGetSheetId(p)
     \/ ConcSort(p)

-----------------------------------------------------------------------------
(* Initial states and specifications *)

\* append_rows is not running and the store is not looked at
SheetIdle ==
  /\ tab = TRUE
  /\ sheet = <<HEADER>>
  /\ pc = "idle"
  /\ rows = <<>>
  /\ existing = EmptyMap
  /\ to_update = <<>>
  /\ to_append = <<>>
  /\ outcome = "none"
  /\ log = <<>>
  /\ sheet0 = sheet
  /\ tab0 = tab
  /\ again = FALSE
  /\ retry = FALSE
  /\ presort = <<>>

PickIdle ==
  /\ provider = "none"
  /\ periods = <<>>
  /\ day = 0
  /\ picked = EmptyDict
  /\ pickDone = FALSE
  /\ aware = FALSE

RetryIdle ==
  /\ r_pc = "off"
  /\ max_attempts = DefaultMaxAttempts
  /\ base_delay = DefaultBaseDelay
  /\ max_delay = DefaultMaxDelay
  /\ attempt = 0
  /\ last_err = NoErr
  /\ is_rl = FALSE
  /\ t_attempt = 0
  /\ t_is_rl = FALSE
  /\ t_delay = 0
  /\ delay = 0
  /\ jitter = 0
  /\ sleep_s = 0
  /\ prev_delay = 0
  /\ ncalls = 0
  /\ nsleeps = 0
  /\ raised_err = NoErr

RangeIdle ==
  /\ d_pc = "off"
  /\ ndays = 0
  /\ modules = <<>>
  /\ di = 0
  /\ mi = 0
  /\ all_rows = <<>>
  /\ fetched = <<>>
  /\ err_lines = 0
  /\ reported = NoCount
  /\ appended = 0
  /\ unconfigured = {}

GarminIdle ==
  /\ g_pc = "off"
  /\ g_creds = TRUE
  /\ g_i = 0
  /\ g_payload = NoPayloads
  /\ g_rows = "none"

UtilIdle ==
  /\ u_fn = "none"
  /\ u_arg = NoValue
  /\ u_res = NoValue
  /\ u_done = FALSE

MetricIdle ==
  /\ m_adapter = "none"
  /\ m_payload = <<>>
  /\ m_row = NoRow
  /\ m_done = FALSE

ScriptIdle ==
  /\ s_script = "none"
  /\ s_sheet = <<>>
  /\ s_sheet0 = <<>>
  /\ s_rows = <<>>
  /\ s_calls = 0

UltraIdle ==
  /\ h_pc = "off"
  /\ h_access = FALSE
  /\ h_refresh = FALSE
  /\ h_creds = FALSE
  /\ h_expired = TRUE
  /\ h_gets = 0
  /\ h_posts = 0
  /\ h_refreshed = <<>>
  /\ h_first = 0
  /\ h_last = 0
  /\ h_result = "none"
  /\ h_unknown = TRUE
  /\ h_tried = 0

ConcIdle ==
  /\ c_sheet = <<>>
  /\ c_sheet0 = <<>>
  /\ c_pc = [p \in Procs |-> "done"]
  /\ c_rows = [p \in Procs |-> <<>>]
  /\ c_plan = [p \in Procs |-> NoPlan]
  /\ c_overlap = FALSE
  /\ c_early = {}
  /\ c_wrote = FALSE

RossIdle ==
  /\ ro_pc = "off"
  /\ ro_token = FALSE
  /\ ro_expired = TRUE
  /\ ro_config = FALSE
  /\ ro_posts = 0
  /\ ro_logins = <<>>
  /\ ro_first = "none"
  /\ ro_last = "none"
  /\ ro_result = "none"

RollaIdle ==
  /\ l_pc = "off"
  /\ l_config = FALSE
  /\ l_token = "none"
  /\ l_token0 = "none"
  /\ l_auth = "none"
  /\ l_seen = <<>>
  /\ l_data = "unbound"
  /\ l_last_data = "none"
  /\ l_result = "none"

PushIdle ==
  /\ pg_pc = "off"
  /\ pg_dates = 0
  /\ pg_i = 0
  /\ pg_done = FALSE
  /\ pg_all_rows = 0
  /\ pg_fetched = <<>>
  /\ pg_pauses = 0
  /\ pg_upserts = <<>>

MoreIdle == RossIdle /\ RollaIdle /\ PushIdle

RestIdle ==
  UtilIdle /\ MetricIdle /\ ScriptIdle /\ UltraIdle /\ ConcIdle /\ MoreIdle

Init == SheetInit /\ PickIdle /\ RetryIdle /\ RangeIdle /\ GarminIdle /\ RestIdle

\* rows the batch would add to a grid whose keys are `known`
InputKey == [r \in InputRows |-> WriteKey(Incoming(r))]

Growth(known, batch) ==
  Cardinality({i \in 1..Len(batch) : InputKey[batch[i]] \notin known})

\* a run of the program calls append_rows once (cli.py, line 162); the grid
\* is kept within MaxRows rows below row 1
Caller ==
  /\ pc = "idle"
  /\ outcome = "none"
  /\ \E known \in {DOMAIN _read_existing_map(sheet)} :
       \E batch \in Batches :
          /\ Len(sheet) + Growth(known, batch) <= MaxRows + 1
          /\ append_rows(batch)
          /\ UNCHANGED otherVars

\* the call that returned is made once more with the same rows
CallerAgain ==
  /\ pc = "idle"
  /\ outcome = "returned"
  /\ \E known \in {DOMAIN _read_existing_map(sheet)} :
       /\ Len(sheet) + Growth(known, rows) <= MaxRows + 1
       /\ append_rows(rows)
       /\ UNCHANGED otherVars

\* the call that raised is made once more with the same rows (the next run
\* fetches the same rows)
CallerRetry ==
  /\ pc = "idle"
  /\ outcome = "raised"
  /\ \E known \in {DOMAIN _read_existing_map(sheet)} :
       /\ Len(sheet) + Growth(known, rows) <= MaxRows + 1
       /\ append_rows(rows)
       /\ UNCHANGED otherVars

\* the run ends: the locals of append_rows are gone, the spreadsheet stays
ProcessExit ==
  /\ pc = "idle"
  /\ outcome # "none"
  /\ rows' = <<>>
  /\ existing' = EmptyMap
  /\ to_update' = <<>>
  /\ to_append' = <<>>
  /\ outcome' = "none"
  /\ log' = <<>>
  /\ sheet0' = sheet
  /\ tab0' = tab
  /\ again' = FALSE
  /\ retry' = FALSE
  /\ presort' = <<>>
  /\ UNCHANGED <<tab, sheet, pc>>
  /\ UNCHANGED otherVars

Next ==
  \/ Caller
  \/ CallerAgain
  \/ CallerRetry
  \/ ProcessExit
  \/ SheetStep

Spec == Init /\ [][Next]_vars

PickInit ==
  /\ provider \in {"oura", "polar"}
  /\ periods \in SessionLists
  /\ day = 1
  /\ picked = EmptyDict
  /\ pickDone = FALSE
  /\ aware \in BOOLEAN

SelectOura ==
  /\ provider = "oura"
  /\ ~pickDone
  /\ picked' = OuraSleepPeriod(periods, day)
  /\ pickDone' = TRUE
  /\ UNCHANGED <<provider, periods, day, aware, sheetVars, retryVars, rangeVars,
                 garminVars, restVars>>

SelectPolar ==
  /\ provider = "polar"
  /\ ~pickDone
  /\ picked' = _pick_record_for_day(periods, day)
  /\ pickDone' = TRUE
  /\ UNCHANGED <<provider, periods, day, aware, sheetVars, retryVars, rangeVars,
                 garminVars, restVars>>

PickNext == SelectOura \/ SelectPolar

InitPick == PickInit /\ SheetIdle /\ RetryIdle /\ RangeIdle /\ GarminIdle /\ RestIdle

SpecPick == InitPick /\ [][PickNext]_vars

\* a call with keyword arguments around the defaults
RetryInit ==
  /\ r_pc = "loop"
  /\ max_attempts \in 1..MaxAttemptsArg
  /\ base_delay \in {DefaultBaseDelay, 2}
  /\ max_delay \in {8, DefaultMaxDelay}
  /\ attempt = 0
  /\ last_err = NoErr
  /\ is_rl = FALSE
  /\ t_attempt = 0
  /\ t_is_rl = FALSE
  /\ t_delay = 0
  /\ delay = 0
  /\ jitter = 0
  /\ sleep_s = 0
  /\ prev_delay = 0
  /\ ncalls = 0
  /\ nsleeps = 0
  /\ raised_err = NoErr

InitRetry == RetryInit /\ SheetIdle /\ PickIdle /\ RangeIdle /\ GarminIdle /\ RestIdle

SpecRetry == InitRetry /\ [][RetryNext]_vars

RangeInit ==
  /\ d_pc = "loop"
  /\ ndays \in 1..MaxDays
  /\ modules \in ModuleLists
  /\ di = 1
  /\ mi = 1
  /\ all_rows = <<>>
  /\ fetched = <<>>
  /\ err_lines = 0
  /\ reported = NoCount
  /\ appended = 0
  /\ unconfigured \in SUBSET {modules[i] : i \in 1..Len(modules)}

\* the spreadsheet a run finds: no tab, a tab with the header only, or a
\* tab with a row an earlier run stored
StoredSheets ==
  {<<>>, <<HEADER>>, <<HEADER, as_row(Day1, "oura", "22:05:00", None)>>}

RangeSheetInit ==
  /\ sheet \in StoredSheets
  /\ tab = (sheet # <<>>)
  /\ pc = "idle"
  /\ rows = <<>>
  /\ existing = EmptyMap
  /\ to_update = <<>>
  /\ to_append = <<>>
  /\ outcome = "none"
  /\ log = <<>>
  /\ sheet0 = sheet
  /\ tab0 = tab
  /\ again = FALSE
  /\ retry = FALSE
  /\ presort = <<>>

InitRange == RangeInit /\ RangeSheetInit /\ PickIdle /\ RetryIdle /\ GarminIdle /\ RestIdle

SpecRange == InitRange /\ [][RangeNext]_vars

GarminInit ==
  /\ g_pc = "start"
  /\ g_creds \in BOOLEAN
  /\ g_i = 0
  /\ g_payload = NoPayloads
  /\ g_rows = "none"

InitGarmin == GarminInit /\ RetryIdle /\ SheetIdle /\ PickIdle /\ RangeIdle /\ RestIdle

SpecGarmin == InitGarmin /\ [][GarminNext]_vars

UtilInit ==
  /\ u_fn \in UtilFunctions
  /\ u_arg \in UtilArgs(u_fn)
  /\ u_res = NoValue
  /\ u_done = FALSE

InitUtil ==
  /\ UtilInit /\ MetricIdle /\ ScriptIdle /\ UltraIdle /\ ConcIdle /\ MoreIdle
  /\ SheetIdle /\ PickIdle /\ RetryIdle /\ RangeIdle /\ GarminIdle

SpecUtil == InitUtil /\ [][UtilNext]_vars

MetricInit ==
  /\ m_adapter \in {"oura", "polar", "garmin"}
  /\ m_payload \in MetricPayloads(m_adapter)
  /\ m_row = NoRow
  /\ m_done = FALSE

InitMetric ==
  /\ MetricInit /\ UtilIdle /\ ScriptIdle /\ UltraIdle /\ ConcIdle /\ MoreIdle
  /\ SheetIdle /\ PickIdle /\ RetryIdle /\ RangeIdle /\ GarminIdle

SpecMetric == InitMetric /\ [][MetricNext]_vars

ScriptInit ==
  /\ s_script \in {"garmin", "polar"}
  /\ s_sheet \in ScriptSheets(s_script)
  /\ s_sheet0 = s_sheet
  /\ s_rows \in ScriptBatches(s_script)
  /\ s_calls = 0

InitScript ==
  /\ ScriptInit /\ UtilIdle /\ MetricIdle /\ UltraIdle /\ ConcIdle /\ MoreIdle
  /\ SheetIdle /\ PickIdle /\ RetryIdle /\ RangeIdle /\ GarminIdle

SpecScript == InitScript /\ [][ScriptNext]_vars

\* a client as __init__ leaves it (lines 43-45: the expiry is not known) or
\* after an earlier token response, and a _get call beginning
UltraInit ==
  /\ h_pc = "headers"
  /\ h_access \in BOOLEAN
  /\ h_refresh \in BOOLEAN
  /\ h_creds \in BOOLEAN
  /\ h_expired \in BOOLEAN
  /\ h_gets = 0
  /\ h_posts = 0
  /\ h_refreshed = <<>>
  /\ h_first = 0
  /\ h_last = 0
  /\ h_result = "none"
  /\ h_unknown \in BOOLEAN
  /\ h_unknown => h_expired
  /\ h_tried = 0

InitUltra ==
  /\ UltraInit /\ UtilIdle /\ MetricIdle /\ ScriptIdle /\ ConcIdle /\ MoreIdle
  /\ SheetIdle /\ PickIdle /\ RetryIdle /\ RangeIdle /\ GarminIdle

SpecUltra == InitUltra /\ [][UltraNext]_vars

RossInit ==
  /\ ro_pc = "headers"
  /\ ro_token \in BOOLEAN
  /\ ro_expired \in BOOLEAN
  /\ ro_config \in BOOLEAN
  /\ ro_posts = 0
  /\ ro_logins = <<>>
  /\ ro_first = "none"
  /\ ro_last = "none"
  /\ ro_result = "none"

InitRoss ==
  /\ RossInit /\ UtilIdle /\ MetricIdle /\ ScriptIdle /\ UltraIdle /\ ConcIdle
  /\ RollaIdle /\ PushIdle
  /\ SheetIdle /\ PickIdle /\ RetryIdle /\ RangeIdle /\ GarminIdle

SpecRoss == InitRoss /\ [][RossNext]_vars

RollaInit ==
  /\ l_pc = "start"
  /\ l_config \in BOOLEAN
  /\ l_token \in {"none", "old", "blank"}
  /\ l_token0 = l_token
  /\ l_auth = l_token
  /\ l_seen = <<>>
  /\ l_data = "unbound"
  /\ l_last_data = "none"
  /\ l_result = "none"

InitRolla ==
  /\ RollaInit /\ UtilIdle /\ MetricIdle /\ ScriptIdle /\ UltraIdle /\ ConcIdle
  /\ SheetIdle /\ PickIdle /\ RetryIdle /\ RangeIdle /\ GarminIdle
  /\ RossIdle /\ PushIdle

SpecRolla == InitRolla /\ [][RollaNext]_vars

PushInit ==
  /\ pg_pc = "loop"
  /\ pg_dates \in 1..MaxDates
  /\ pg_i = 1
  /\ pg_done = FALSE
  /\ pg_all_rows = 0
  /\ pg_fetched = <<>>
  /\ pg_pauses = 0
  /\ pg_upserts = <<>>

InitPush ==
  /\ PushInit /\ UtilIdle /\ MetricIdle /\ ScriptIdle /\ UltraIdle /\ ConcIdle
  /\ SheetIdle /\ PickIdle /\ RetryIdle /\ RangeIdle /\ GarminIdle
  /\ RossIdle /\ RollaIdle

SpecPush == InitPush /\ [][PushNext]_vars

ConcInit ==
  /\ c_sheet \in ConcSheets
  /\ c_sheet0 = c_sheet
  /\ c_pc = [p \in Procs |-> "idle"]
  /\ c_rows \in [Procs -> ConcBatches(1) \cup ConcBatches(2)]
  /\ \A p \in Procs : c_rows[p] \in ConcBatches(p)
  /\ c_plan = [p \in Procs |-> NoPlan]
  /\ c_overlap = FALSE
  /\ c_early = {}
  /\ c_wrote = FALSE

InitConc ==
  /\ ConcInit /\ UtilIdle /\ MetricIdle /\ ScriptIdle /\ UltraIdle /\ MoreIdle
  /\ SheetIdle /\ PickIdle /\ RetryIdle /\ RangeIdle /\ GarminIdle

SpecConc == InitConc /\ [][ConcNext]_vars

-----------------------------------------------------------------------------
(* Properties of append_rows (specification Spec) *)

Returned == pc = "idle" /\ outcome = "returned"
Raised == pc = "idle" /\ outcome = "raised"

\* the key under which a stored row is found by the next index read
StoredKey(row) == ReadKey(TrimRow(row))

KeyCount(sh, k) == Cardinality({i \in 2..Len(sh) : StoredKey(sh[i]) = k})

BatchKey(i) == WriteKey(Incoming(rows[i]))

\* the last row of the batch that carries the key of row i
LastOfKey(i) ==
  Incoming(rows[CHOOSE j \in 1..Len(rows) :
                  /\ BatchKey(j) = BatchKey(i)
                  /\ \A l \in 1..Len(rows) : BatchKey(l) = BatchKey(i) => l <= j])

SortedByDate(rs) ==
  \A i, j \in 1..Len(rs) : i < j => DateOrd(rs[i][1]) <= DateOrd(rs[j][1])

OfDate(rs, d) == SelectSeq(rs, LAMBDA r : r[1] = d)

\* C1: a second append_rows call with the batch of the call that just
\* returned leaves the data rows (number and content) as the first left them
C1_SecondCallChangesNothing ==
  (Returned /\ again /\ rows # <<>>) => DataRows(sheet) = DataRows(sheet0)

\* C1 restricted to a tab whose row 1 was there when the first call started
C1_SecondCallChangesNothingWithRow1 ==
  (Returned /\ again /\ rows # <<>> /\ sheet[1] = HEADER)
     => DataRows(sheet) = DataRows(sheet0)

C1_Witness ==
  /\ Returned /\ again /\ Len(rows) = 2 /\ sheet[1] = HEADER
  /\ Len(DataRows(sheet)) = 2
  /\ to_update # <<>>

\* C2: no two data rows of the store share a composite key
C2_UniqueKeys ==
  \A i, j \in 2..Len(sheet) :
     i # j => StoredKey(sheet[i]) # StoredKey(sheet[j])

\* C3: a returned call leaves, for every batch row whose key was stored
\* once, one row of that key, holding the last incoming row of that key; a
\* batch of stored keys only leaves the number of data rows unchanged
C3_OverwriteLastWins ==
  (Returned /\ rows # <<>>) =>
     /\ \A i \in 1..Len(rows) :
          KeyCount(sheet0, BatchKey(i)) = 1 =>
             /\ KeyCount(sheet, BatchKey(i)) = 1
             /\ \A n \in 2..Len(sheet) :
                  StoredKey(sheet[n]) = BatchKey(i) => sheet[n] = LastOfKey(i)
     /\ (\A i \in 1..Len(rows) : KeyCount(sheet0, BatchKey(i)) >= 1)
          => Len(DataRows(sheet)) = Len(DataRows(sheet0))

C3_Witness ==
  /\ Returned /\ Len(rows) = 2 /\ ~again
  /\ BatchKey(1) = BatchKey(2) /\ Incoming(rows[1]) # Incoming(rows[2])
  /\ KeyCount(sheet0, BatchKey(1)) = 1
  /\ \E n \in 2..Len(sheet0) :
       StoredKey(sheet0[n]) = BatchKey(1) /\ sheet0[n] # Incoming(rows[2])
  /\ Len(DataRows(sheet0)) = 2

C9_FailureAborts ==
  \A i \in 1..Len(log) : ~log[i].ok => (i = Len(log) /\ Raised)

C9_Witness ==
  /\ Raised /\ Len(log) = 4
  /\ log[4].op = "values.append" /\ log[3].op = "values.batchUpdate"

\* the grid after _ensure_tab, and the writes planned on it
GridAtRead == IF tab0 THEN sheet0 ELSE <<HEADER>>
PlannedUpdate == PlanUpdate(_read_existing_map(GridAtRead), rows)
PlannedAppend == PlanAppend(_read_existing_map(GridAtRead), rows)

\* C10 as claimed: a call that fails leaves none of its row changes
C10_NoPartialApplication == Raised => DataRows(sheet) = DataRows(sheet0)

\* C10 amended: a call that fails stops at the failed request, which changes
\* nothing; what the requests before it wrote stays (no rollback)
C10_CompletedWritesStay ==
  Raised =>
    LET failed == log[Len(log)].op
        updated == BatchUpdateValues(GridAtRead, PlannedUpdate)
    IN CASE failed = "values.batchUpdate" -> sheet = GridAtRead
         [] failed = "values.append" -> sheet = updated
         [] failed = "sortRange" \/ (failed = "spreadsheets.get" /\ Len(log) > 1)
              -> sheet = AppendValues(updated, PlannedAppend)
         [] OTHER -> DataRows(sheet) = DataRows(sheet0)

C10_Witness ==
  /\ Raised /\ log[Len(log)].op = "values.append"
  /\ PlannedUpdate # <<>>
  /\ sheet # sheet0

\* C11: when a call raised and the caller runs append_rows again with the
\* same batch and that call returns, the data rows ascend by date and hold,
\* for every key of the batch, exactly one row, with the batch's values
C11_RetryHeals ==
  (Returned /\ retry /\ rows # <<>>) =>
     /\ SortedByDate(DataRows(sheet))
     /\ \A i \in 1..Len(rows) :
          /\ KeyCount(sheet, BatchKey(i)) = 1
          /\ \A n \in 2..Len(sheet) :
               StoredKey(sheet[n]) = BatchKey(i) => sheet[n] = LastOfKey(i)

\* C11 for a batch of distinct keys, none stored twice, retried on a tab
\* that is missing or has the header in row 1
C11_RetryHealsDistinctKeysWithRow1 ==
  (/\ Returned /\ retry /\ rows # <<>>
   /\ \A i, j \in 1..Len(rows) : i # j => BatchKey(i) # BatchKey(j)
   /\ \A i \in 1..Len(rows) : KeyCount(sheet0, BatchKey(i)) <= 1
   /\ tab0 => (sheet0 # <<>> /\ sheet0[1] = HEADER)) =>
     /\ SortedByDate(DataRows(sheet))
     /\ \A i \in 1..Len(rows) :
          /\ KeyCount(sheet, BatchKey(i)) = 1
          /\ \A n \in 2..Len(sheet) :
               StoredKey(sheet[n]) = BatchKey(i) => sheet[n] = Incoming(rows[i])

\* the requests of the current / last invocation
CountOp(op) == Cardinality({i \in 1..Len(log) : log[i].op = op})

\* the place of a request in lines 109-153
StepRank(op) ==
  CASE op = "values.get" -> 1
    [] op = "values.batchUpdate" -> 2
    [] op = "values.append" -> 3
    [] op = "sortRange" -> 4
    [] OTHER -> 0

Writes == CountOp("values.batchUpdate") + CountOp("values.append")

\* C12: an invocation with a non-empty batch makes at most one index read,
\* one overwrite batch, one append batch and one sort, in this order, and
\* no write before the index read; when it returns it has made exactly one
\* index read, one or two batched writes, and the sort is its last request
C12_OneReadThenBatchedWrites ==
  /\ \A op \in {"values.get", "values.batchUpdate", "values.append", "sortRange"} :
       CountOp(op) <= 1
  /\ \A i, j \in 1..Len(log) :
       (i < j /\ StepRank(log[i].op) > 0 /\ StepRank(log[j].op) > 0)
          => StepRank(log[i].op) < StepRank(log[j].op)
  /\ Writes > 0 => CountOp("values.get") = 1
  /\ (Returned /\ rows # <<>>) =>
       /\ CountOp("values.get") = 1
       /\ Writes \in {1, 2}
       /\ log[Len(log)].op = "sortRange"
       /\ \A i \in 1..Len(log) : log[i].ok

C12_Witness ==
  /\ Returned /\ Len(rows) = 2 /\ Writes = 2
  /\ to_update # <<>> /\ to_append # <<>>

\* C13: after a call with a non-empty batch returns, row 1 of the tab is the
\* header, whether the call created the tab or found it
C13_HeaderInRow1 ==
  (Returned /\ rows # <<>>) => (sheet # <<>> /\ sheet[1] = HEADER)

\* C13 for the calls that created the tab
C13_HeaderInRow1OfCreatedTab ==
  (Returned /\ rows # <<>> /\ ~tab0) => (sheet # <<>> /\ sheet[1] = HEADER)

\* the overwrites of `data`, applied in order to the grid sh, each meet a row
\* below row 1 that the index read would file under the key of the
\* incoming row
RECURSIVE WritesHitKeyRows(_, _)
WritesHitKeyRows(sh, data) ==
  \/ data = <<>>
  \/ LET u == Head(data)
     IN /\ u.row_idx \in 2..Len(sh)
        /\ Indexed(TrimRow(sh[u.row_idx]))
        /\ StoredKey(sh[u.row_idx]) = WriteKey(u.values)
        /\ WritesHitKeyRows([sh EXCEPT ![u.row_idx] = u.values], Tail(data))

\* C35: within one invocation every scheduled overwrite is applied to the
\* row that, when the write is applied, holds the stored row of the key of
\* the incoming row; the invocation has neither appended nor sorted before
\* its overwrites are applied
C35_OverwritesHitTheirRows ==
  pc = "batch_update" =>
     /\ WritesHitKeyRows(sheet, to_update)
     /\ \A i \in 1..Len(log) : log[i].op \notin {"values.append", "sortRange"}

\* two overwrites are about to be applied, the row below first
C35_Witness ==
  /\ pc = "batch_update" /\ Len(to_update) = 2
  /\ to_update[1].row_idx > to_update[2].row_idx

BatchKeys == {BatchKey(i) : i \in 1..Len(rows)}

\* how often the row r stands below row 1 of the grid sh
Copies(sh, r) == Cardinality({i \in 2..Len(sh) : sh[i] = r})

\* C36: from its call on, append_rows keeps every stored data row whose key
\* is not in the batch, with its content (as many copies as before, at
\* whatever position), and never has fewer data rows than at the call; with
\* an empty batch it sends no request and leaves the grid alone
C36_OtherRowsKept ==
  /\ \A i \in 2..Len(sheet0) :
        StoredKey(sheet0[i]) \notin BatchKeys
           => Copies(sheet, sheet0[i]) >= Copies(sheet0, sheet0[i])
  /\ Len(DataRows(sheet)) >= Len(DataRows(sheet0))
  /\ rows = <<>> => log = <<>> /\ sheet = sheet0 /\ tab = tab0

\* a returned call appended a row and its sort moved a stored row of another
\* key to another position
C36_Witness ==
  /\ Returned /\ to_append # <<>>
  /\ \E i \in 2..Len(sheet0) :
        /\ StoredKey(sheet0[i]) \notin BatchKeys
        /\ sheet[i] # sheet0[i]
        /\ Copies(sheet, sheet0[i]) = 1

\* a call with an empty batch has returned
C36_EmptyBatchWitness ==
  /\ pc = "idle" /\ outcome = "returned" /\ rows = <<>> /\ log = <<>>
  /\ Len(sheet) > 1

\* the rows of the grid, row 1 included, that hold an incoming row of the
\* batch as written
Written == {n \in 1..Len(sheet) : \E i \in 1..Len(rows) : sheet[n] = Incoming(rows[i])}

\* C37: for every row a returned call wrote, the key the index read derives
\* for the stored row (read back without its trailing empty cells) is the
\* key append_rows computed for it, and the next index read finds a row of
\* every key of the batch
C37_WrittenRowsAreFound ==
  (Returned /\ rows # <<>>) =>
     /\ \A n \in Written : ReadKey(TrimRow(sheet[n])) = WriteKey(sheet[n])
     /\ \A i \in 1..Len(rows) : BatchKey(i) \in DOMAIN _read_existing_map(sheet)

\* C37 without the rows that stand in row 1 of a tab that had no header
C37_WrittenRowsAreFoundBelowRow1 ==
  (Returned /\ rows # <<>>) =>
     /\ \A n \in Written : ReadKey(TrimRow(sheet[n])) = WriteKey(sheet[n])
     /\ \A i \in 1..Len(rows) :
          \/ BatchKey(i) \in DOMAIN _read_existing_map(sheet)
          \/ /\ sheet[1] # HEADER
             /\ ReadKey(TrimRow(sheet[1])) = BatchKey(i)

\* a row without record id was written, read back shorter than the header,
\* and is found under "daily"
C37_DailyWitness ==
  /\ Returned /\ Len(sheet) > 1 /\ sheet[1] = HEADER
  /\ \E n \in Written :
       /\ n > 1
       /\ Len(TrimRow(sheet[n])) < Len(HEADER)
       /\ WriteKey(sheet[n])[3] = "daily"
       /\ WriteKey(sheet[n]) \in DOMAIN _read_existing_map(sheet)

-----------------------------------------------------------------------------
(* Properties of the session selection (specification SpecPick) *)

\* overlap of a session with the window of the day, in hours; a session
\* whose start or end does not parse has none
WindowOverlap(p, d) ==
  IF p.start = NoTime \/ p.end = NoTime THEN 0
  ELSE _overlap_seconds(p.start, p.end, 24 * d, 24 * d + 24)

\* C5: the selection returns a session of strictly positive overlap with
\* the window of the day, and returns none exactly when no session of the
\* list has a positive overlap
C5_PositiveOverlapOrNone ==
  pickDone =>
    IF picked = EmptyDict
      THEN \A i \in 1..Len(periods) : WindowOverlap(periods[i], day) <= 0
      ELSE WindowOverlap(picked, day) > 0

\* the same for Polar lists without a session that ends on the first
\* instant of the window or lacks its start
C5_PolarOverlapFallback ==
  (pickDone /\ provider = "polar"
     /\ \A i \in 1..Len(periods) : periods[i].end # 24 * day /\ periods[i].start # NoTime)
  => IF picked = EmptyDict
       THEN \A i \in 1..Len(periods) : WindowOverlap(periods[i], day) <= 0
       ELSE WindowOverlap(picked, day) > 0


\* the containment pass of the provider, on the list as given
ContainmentPass(ps, d) ==
  IF provider = "oura" THEN _pick_sleep_ending_in_day(ps, d)
  ELSE _pick_record_for_day(ps, d)

EndsInDay(p, d) == p.end # NoTime /\ 24 * d <= p.end /\ p.end < 24 * d + 24

\* main/long sleep before nap, then longer duration, then later end
TieBreak(p) == <<IF p.type = "long_sleep" THEN 1 ELSE 0, p.duration, p.end>>

Ending(ps, d) == {ps[i] : i \in {j \in 1..Len(ps) : EndsInDay(ps[j], d)}}

\* C15: when sessions end inside the day window, the containment pass
\* returns one of them, and none of them is greater in the order (main/long
\* sleep, duration, end)
C15_ContainmentPicksMaximum ==
  (pickDone /\ Ending(periods, day) # {}) =>
     LET r == ContainmentPass(periods, day)
     IN /\ r \in Ending(periods, day)
        /\ \A q \in Ending(periods, day) : ~TupleLess(TieBreak(r), TieBreak(q))

\* C15 for oura._pick_sleep_ending_in_day alone, when it returns
C15_OuraContainmentPicksMaximum ==
  (pickDone /\ provider = "oura" /\ Ending(periods, day) # {}) =>
     LET r == _pick_sleep_ending_in_day(periods, day)
     IN r # TypeError =>
        /\ r \in Ending(periods, day)
        /\ \A q \in Ending(periods, day) : ~TupleLess(TieBreak(r), TieBreak(q))

\* the overlap fallback of the provider, on the list as given
FallbackPass(ps, d) ==
  IF provider = "oura" THEN _pick_sleep_for_day(ps, d)
  ELSE _pick_record_for_day(ps, d)

Parsed(ps) == {ps[i] : i \in {j \in 1..Len(ps) : ps[j].start # NoTime /\ ps[j].end # NoTime}}

\* C16: when no session ends inside the day window and the fallback returns
\* a session, no session has a greater overlap with the window, and among
\* the sessions of that overlap none is greater in the order (main/long
\* sleep, duration, end)
C16_FallbackTieBreaks ==
  (pickDone /\ Ending(periods, day) = {}) =>
     LET r == FallbackPass(periods, day)
     IN r \notin {EmptyDict, TypeError} =>
          /\ r \in Parsed(periods)
          /\ \A q \in Parsed(periods) :
               /\ WindowOverlap(q, day) <= WindowOverlap(r, day)
               /\ WindowOverlap(q, day) = WindowOverlap(r, day)
                    => ~TupleLess(TieBreak(r), TieBreak(q))

\* C16 without the tie-breaks: the fallback returns a session of maximum
\* overlap
C16_FallbackPicksMaximumOverlap ==
  (pickDone /\ Ending(periods, day) = {}) =>
     LET r == FallbackPass(periods, day)
     IN r \notin {EmptyDict, TypeError} =>
          /\ r \in Parsed(periods)
          /\ \A q \in Parsed(periods) : WindowOverlap(q, day) <= WindowOverlap(r, day)

Valid(p) == p.start # NoTime /\ p.end # NoTime

\* the selection of the provider on a list
Selection(ps, d) ==
  IF provider = "oura" THEN OuraSleepPeriod(ps, d) ELSE _pick_record_for_day(ps, d)

\* C17: the selection never raises, never returns a session whose start or
\* end does not parse, returns what it returns for the list without those
\* sessions, and returns none when no session of the list parses
C17_MalformedSkipped ==
  pickDone =>
    /\ picked # TypeError
    /\ picked # EmptyDict => Valid(picked)
    /\ picked = Selection(SelectSeq(periods, Valid), day)
    /\ (\A i \in 1..Len(periods) : ~Valid(periods[i])) => picked = EmptyDict

\* C17 for Polar lists in which every end that parses has a start that
\* parses
C17_PolarMalformedSkipped ==
  (pickDone /\ provider = "polar"
     /\ \A i \in 1..Len(periods) : periods[i].end # NoTime => periods[i].start # NoTime) =>
    /\ picked # TypeError
    /\ picked # EmptyDict => Valid(picked)
    /\ picked = Selection(SelectSeq(periods, Valid), day)
    /\ (\A i \in 1..Len(periods) : ~Valid(periods[i])) => picked = EmptyDict

\* C34: when the end of at least one session falls inside the day window,
\* the selected session is one of those ending inside the window, whatever
\* the overlap of the sessions ending outside; the overlap fallback decides
\* only when no session ends inside the window
C34_ContainmentBeforeFallback ==
  (pickDone /\ Ending(periods, day) # {}) => picked \in Ending(periods, day)

\* C34 for Polar, and for Oura lists in which a session that is no nap ends
\* inside the window, when the selection returns
C34_ContainmentAmongNonNaps ==
  (/\ pickDone
   /\ Ending(periods, day) # {}
   /\ provider = "oura" => /\ Ending(NonNaps(periods), day) # {}
                           /\ picked # TypeError)
    => picked \in Ending(periods, day)

\* the Oura selection took a session ending outside the window while a nap
\* ended inside it
C34_NapWitness ==
  /\ pickDone /\ provider = "oura"
  /\ \E q \in Ending(periods, day) : q.type = "nap"
  /\ picked \notin {EmptyDict, TypeError}
  /\ ~EndsInDay(picked, day)

\* the lists that hold the sessions of ps in another order
Reorderings(ps) ==
  LET n == Len(ps)
      onto == {f \in [1..n -> 1..n] : \A i, j \in 1..n : f[i] = f[j] => i = j}
  IN {[i \in 1..n |-> ps[f[i]]] : f \in onto}

\* C38: the selected session does not depend on the order of the list:
\* every permutation of the list yields the same selection
C38_OrderOfListIrrelevant ==
  pickDone => \A q \in Reorderings(periods) : Selection(q, day) = picked

\* what the order cannot change for Polar: whether a session is selected,
\* and its duration
C38_PolarSameDuration ==
  (pickDone /\ provider = "polar") =>
     \A q \in Reorderings(periods) :
        /\ Selection(q, day) = EmptyDict <=> picked = EmptyDict
        /\ Selection(q, day).duration = picked.duration

\* two sessions that the order (main/long sleep, duration, end) tells apart,
\* and the order of the list decides between them
C38_OrderWitness ==
  /\ pickDone /\ Len(periods) = 2 /\ picked \notin {EmptyDict, TypeError}
  /\ TieBreak(periods[1]) # TieBreak(periods[2])
  /\ \E q \in Reorderings(periods) :
        Selection(q, day) \notin {picked, EmptyDict, TypeError}

-----------------------------------------------------------------------------
(* Properties of _retry_with_backoff (specification SpecRetry) *)

\* C6: fn is called at most max_attempts times; the call raises only after
\* max_attempts failed calls, and then the error of the last call; it
\* returns only from a call of fn that succeeded
C6_BoundedAttempts ==
  /\ ncalls <= max_attempts
  /\ r_pc = "raised" =>
       /\ ncalls = max_attempts
       /\ raised_err = last_err
       /\ raised_err.n = max_attempts
  /\ r_pc = "returned" => attempt < max_attempts

C6_Witness ==
  /\ r_pc = "raised" /\ max_attempts = DefaultMaxAttempts
  /\ ncalls = DefaultMaxAttempts /\ nsleeps = DefaultMaxAttempts

\* C7: after the n-th failed call the sleep is min(max_delay,
\* base_delay * 2^(n-1)) times a factor of 0.25 to 1.25; the delay before
\* the factor never exceeds max_delay and never decreases
C7_BackoffSchedule ==
  r_pc = "sleep" =>
    /\ delay = Min2(max_delay, base_delay * 2 ^ (attempt - 1))
    /\ jitter \in 1..5
    /\ sleep_s = delay * jitter
    /\ delay <= max_delay
    /\ prev_delay <= delay

C7_Witness ==
  /\ r_pc = "sleep" /\ max_delay = DefaultMaxDelay /\ base_delay = DefaultBaseDelay
  /\ attempt = 7 /\ delay = DefaultMaxDelay /\ prev_delay = 32 /\ jitter = 5

\* C20: two runs with the same arguments whose fn fails at the same calls,
\* the errors of one classified as rate-limited independently of the
\* other's, have made the same number of attempts and computed the same
\* delay before the jitter after every failure; only the logged
\* `rate_limited` flag may differ
C20_ClassificationLeavesScheduleAlone ==
  /\ t_attempt = attempt
  /\ t_delay = delay
  /\ LoopCond(t_attempt, max_attempts) = LoopCond(attempt, max_attempts)

\* a third failure that one run logs as rate-limited and the other does not
C20_Witness ==
  /\ r_pc = "sleep" /\ attempt = 3 /\ base_delay = DefaultBaseDelay
  /\ is_rl /\ ~t_is_rl
  /\ delay = 4 /\ t_delay = 4

\* C39: _retry_with_backoff sleeps once after each failed call of fn and
\* never after a call that succeeded: when it returns from call k it has
\* called fn k times and slept k - 1 times; when it raises it has called fn
\* max_attempts times and slept max_attempts times, the last sleep before
\* the raise
C39_OneSleepPerFailure ==
  /\ r_pc = "loop" => ncalls = attempt /\ nsleeps = attempt
  /\ r_pc = "sleep" => ncalls = attempt /\ nsleeps = attempt - 1
  /\ r_pc = "returned" => ncalls = attempt + 1 /\ nsleeps = ncalls - 1
  /\ r_pc = "raised" => ncalls = max_attempts /\ nsleeps = max_attempts

\* the call raised after three failed calls and three sleeps
C39_Witness ==
  r_pc = "raised" /\ max_attempts = 3 /\ ncalls = 3 /\ nsleeps = 3

\* the call returned from its third call of fn, after two sleeps
C39_ReturnWitness ==
  r_pc = "returned" /\ ncalls = 3 /\ nsleeps = 2

-----------------------------------------------------------------------------
(* Properties of _do_range (specification SpecRange) *)

\* the k-th pair of the range: days ascending, sources in load order
PairDay(k) == ((k - 1) \div Len(modules)) + 1
PairSource(k) == modules[((k - 1) % Len(modules)) + 1]

RECURSIVE RowsFetched(_)
RowsFetched(f) ==
  IF f = <<>> THEN <<>>
  ELSE RowsFetched(SubSeq(f, 1, Len(f) - 1))
         \o RowsOf(f[Len(f)].result, f[Len(f)].day, f[Len(f)].source)

\* C8: fetch_day is called once for every (day, source) pair, in order,
\* whatever the other calls did, and the rows of all the calls that
\* succeeded are what append_rows is given
C8_EveryPairFetchedOnce ==
  /\ \A k \in 1..Len(fetched) :
       fetched[k].day = PairDay(k) /\ fetched[k].source = PairSource(k)
  /\ Len(fetched) <= ndays * Len(modules)
  /\ d_pc \notin {"off", "loop"} => Len(fetched) = ndays * Len(modules)
  /\ all_rows = RowsFetched(fetched)
  /\ d_pc = "appending" => rows = all_rows

C8_Witness ==
  /\ d_pc = "appending" /\ ndays = 2 /\ Len(modules) = 2
  /\ fetched[1].result = "raise" /\ fetched[3].result = "raise"
  /\ Len(all_rows) = 2

\* the "[ERR]" lines the fetches made so far call for
FailedFetches == Cardinality({k \in 1..Len(fetched) : fetched[k].result = "raise"})

\* C14: a run calls append_rows at most once, after the last fetch and with
\* all the rows of the run, and makes no store request before; the count of
\* its final line is the number of rows its call wrote (overwrites and
\* appends); it has printed one "[ERR]" line per fetch that raised
C14_OneCallAfterAllFetches ==
  /\ appended <= 1
  /\ d_pc \in {"loop", "after_loop"} => (appended = 0 /\ pc = "idle" /\ log = <<>>)
  /\ appended = 1 =>
       /\ Len(fetched) = ndays * Len(modules)
       /\ rows = all_rows
       /\ all_rows = RowsFetched(fetched)
       /\ all_rows # <<>>
  /\ d_pc = "done" =>
       IF all_rows = <<>>
         THEN appended = 0 /\ reported = NoCount
         ELSE /\ appended = 1 /\ Returned
              /\ reported = Len(to_update) + Len(to_append)
              /\ reported = Len(all_rows)
  /\ d_pc = "raised" => (Raised /\ reported = NoCount)
  /\ err_lines = FailedFetches

C14_Witness ==
  /\ d_pc = "done" /\ reported = 2 /\ err_lines = 2
  /\ to_update # <<>> /\ to_append # <<>>

\* the fetches that found a credential missing
ConfigFailures == {k \in 1..Len(fetched) : fetched[k].source \in unconfigured}

\* C19: once a fetch has found a credential missing, the run stops: that
\* fetch_day call is the last one, no store request is made, and the source
\* is not tried again
C19_MissingCredentialStopsRun ==
  \A k \in ConfigFailures :
     /\ Len(fetched) = k
     /\ appended = 0
     /\ log = <<>>

\* what the run does instead: each fetch of a source without its
\* credential raises, is reported on an "[ERR]" line and leaves no row
C19_MissingCredentialSkipsUnit ==
  /\ \A k \in ConfigFailures : fetched[k].result = "raise"
  /\ err_lines >= Cardinality(ConfigFailures)
  /\ \A i \in 1..Len(all_rows) : all_rows[i][2] \notin unconfigured

-----------------------------------------------------------------------------
(* Properties of garmin.fetch_day (specification SpecGarmin) *)

Exhausted == {i \in 1..Len(GarminRequests) : g_payload[i] = "empty"}

\* C18: fetch_day raises when, and only when, the retries of one of its
\* requests are exhausted: it returns no row and no empty list after a data
\* request whose _retry_with_backoff call raised
C18_ExhaustedRequestRaises ==
  /\ g_pc \in {"build", "returned"} => Exhausted = {}
  /\ (g_pc = "raised" /\ g_creds) =>
       (ncalls = DefaultMaxAttempts /\ raised_err = last_err /\ raised_err # NoErr)

\* C18 for the login call: fetch_day raises after, and only after, the
\* retries of the login are exhausted; a data request is given up only
\* when its _retry_with_backoff call has raised after max_attempts calls
C18_LoginExhaustedRaises ==
  /\ (g_pc = "raised" /\ g_creds) =>
       (ncalls = DefaultMaxAttempts /\ raised_err = last_err /\ raised_err # NoErr
          /\ g_payload = NoPayloads)
  /\ (g_pc = "fetch" /\ r_pc = "raised") => ncalls = DefaultMaxAttempts

-----------------------------------------------------------------------------
(* Properties of the pure functions (specification SpecUtil) *)

HasReturned(fn) == u_fn = fn /\ u_done

\* n / d rounded to the nearest integer, a tie upwards
HalfUp(n, d) == (2 * n + d) \div (2 * d)

\* C21: seconds_to_minutes(s) is s / 60 rounded half-up for every
\* non-negative integer s, and None for None
C21_SecondsRoundHalfUp ==
  HasReturned("seconds_to_minutes") =>
    u_res = IF u_arg = NoValue THEN NoValue ELSE HalfUp(u_arg, 60)

\* what seconds_to_minutes computes: the nearest minute, and for a value
\* ending in exactly half a minute the even one
C21_SecondsRoundHalfEven ==
  HasReturned("seconds_to_minutes") /\ u_arg # NoValue =>
    /\ 2 * 60 * u_res - 60 <= 2 * u_arg
    /\ 2 * u_arg <= 2 * 60 * u_res + 60
    /\ u_arg % 60 = 30 => u_res % 2 = 0

\* C22: meters_to_km(m) is m / 1000 rounded half-up to two decimals for
\* every non-negative integer m, and None for None
C22_MetersRoundHalfUp ==
  HasReturned("meters_to_km") =>
    IF u_arg = NoValue THEN u_res = NoValue
    ELSE /\ 10 * u_res - 5 <= u_arg
         /\ u_arg < 10 * u_res + 5

\* 1005 m are 1.01 km
C22_Witness ==
  HasReturned("meters_to_km") /\ u_arg = 1005 /\ u_res = 101

\* C23: mps_to_speed_and_pace returns (None, None) for the speeds 0 and
\* None without dividing by zero, and for every other speed two values
C23_ZeroSpeedGuarded ==
  HasReturned("mps_to_speed_and_pace") =>
    /\ u_res[1] # ZeroDivisionError /\ u_res[2] # ZeroDivisionError
    /\ IF u_arg \in {0, NoValue}
         THEN u_res = <<NoValue, NoValue>>
         ELSE u_res[1] # NoValue /\ u_res[2] # NoValue

\* the speed 0 has been converted
C23_Witness ==
  HasReturned("mps_to_speed_and_pace") /\ u_arg = 0 /\ u_res = <<NoValue, NoValue>>

\* C24: every workout-type string is mapped to its entry in the vocabulary
\* or to "other": the result is a member of UnifiedWorkoutType
C24_AlwaysAWorkoutType ==
  HasReturned("normalize_workout_type") /\ u_arg # NoneStr =>
    u_res \in UnifiedWorkoutType

\* C24 as amended: None and the empty string give None; every non-empty
\* string gives a member of UnifiedWorkoutType, the entry of its lower-case
\* underscore spelling when the vocabulary has one
C24_NonEmptyTypeIsMapped ==
  HasReturned("normalize_workout_type") =>
    IF u_arg \in {NoneStr, <<>>} THEN u_res = None
    ELSE /\ u_res \in UnifiedWorkoutType
         /\ u_arg \in DOMAIN NORMALIZED_WORKOUT_TYPES =>
              u_res = NORMALIZED_WORKOUT_TYPES[u_arg]
         /\ u_res # "other" =>
              \E k \in DOMAIN NORMALIZED_WORKOUT_TYPES :
                 NORMALIZED_WORKOUT_TYPES[k] = u_res /\ Len(k) = Len(u_arg)
         /\ u_arg = <<"r", "U", "n">> => u_res = "run"
         /\ u_arg = <<"r", "-", "n">> => u_res = "other"

\* "Weight Training" has been mapped to "strength"
C24_Witness ==
  /\ HasReturned("normalize_workout_type")
  /\ u_arg = <<"W", "e", "i", "g", "h", "t", " ", "T", "r", "a", "i", "n", "i", "n", "g">>
  /\ u_res = "strength"

C27_HeaderHas22Columns ==
  HasReturned("as_row") =>
    /\ UNIFIED_HEADER[1] = "date"
    /\ UNIFIED_HEADER[2] = "source"
    /\ Len(UNIFIED_HEADER) = 22

\* what the header has: "date" and "source" first, and one column for
\* each field of UnifiedRow
C27_HeaderNamesTheFields ==
  /\ UNIFIED_HEADER[1] = "date"
  /\ UNIFIED_HEADER[2] = "source"
  /\ {UNIFIED_HEADER[i] : i \in 1..Len(UNIFIED_HEADER)} = UnifiedRowFields
  /\ Len(UNIFIED_HEADER) = Cardinality(UnifiedRowFields)

-----------------------------------------------------------------------------
(* Properties of the daily metrics (specification SpecMetric) *)

\* the fields a metric is taken from, in the adapter's order of preference
Candidates(metric) ==
  IF m_adapter = "oura" THEN
    (CASE metric = "rhr_bpm" ->
            <<m_payload.lowest_heart_rate, m_payload.average_bpm>>
       [] metric = "hrv_ms" ->
            <<m_payload.daily_average_hrv, m_payload.period_average_hrv>>
       [] metric = "steps" -> <<m_payload.steps>>
       [] metric = "active_calories" -> <<m_payload.active_calories>>)
  ELSE IF m_adapter = "garmin" THEN
    (CASE metric = "rhr_bpm" ->
            <<m_payload.lowestHeartRate, m_payload.minHeartRate,
              m_payload.sleepLowestHeartRate, m_payload.restingHeartRate>>
       [] metric = "hrv_ms" -> <<m_payload.avgRmssd, m_payload.lastNightAvg>>
       [] metric = "steps" -> <<m_payload.steps, m_payload.totalSteps>>
       [] metric = "active_calories" ->
            <<m_payload.activeKilocalories, m_payload.activeCalories>>)
  ELSE IF metric \in {"steps", "active_calories"}
    THEN [i \in 1..Len(m_payload) |-> m_payload[i][metric]]
    ELSE <<>>

RECURSIVE FirstMeasured(_)
\* the first value of a list of fields that is there, a zero included
FirstMeasured(vals) ==
  IF vals = <<>> THEN NoValue
  ELSE IF Head(vals) # NoValue THEN Head(vals) ELSE FirstMeasured(Tail(vals))

Metrics == {"rhr_bpm", "hrv_ms", "steps", "active_calories"}

\* a Polar item with samples derives its numbers from them
Sampled == m_adapter = "polar" /\ \E i \in 1..Len(m_payload) : m_payload[i].sampled

\* C25: a metric whose measured value is 0 is 0 in the row and a metric
\* with no value in the payload is null: the row holds the first field
\* that is there, also when it is zero
C25_MeasuredZeroIsKept ==
  m_done /\ ~Sampled =>
    \A metric \in Metrics : m_row[metric] = FirstMeasured(Candidates(metric))

\* Garmin's row keeps a measured zero
C25_GarminKeepsZero ==
  m_done /\ m_adapter = "garmin" =>
    \A metric \in Metrics : m_row[metric] = FirstMeasured(Candidates(metric))

\* Oura's steps and calories are copied from the payload, and a metric of
\* any adapter that is not null in the row is a value of one of its fields
C25_RowValuesComeFromPayload ==
  m_done /\ ~Sampled =>
    /\ m_adapter = "oura" =>
         /\ m_row.steps = m_payload.steps
         /\ m_row.active_calories = m_payload.active_calories
         /\ m_row.rhr_bpm # 0 /\ m_row.hrv_ms # 0
    /\ \A metric \in Metrics :
         m_row[metric] # NoValue =>
           \E i \in 1..Len(Candidates(metric)) :
              Candidates(metric)[i] = m_row[metric]

-----------------------------------------------------------------------------
(* Properties of the push scripts (specification SpecScript) *)

\* the rows of the tab below row 1 that carry the date and source of `row`
RowsOfKey(row) ==
  {i \in 2..Len(s_sheet) : s_sheet[i][1] = row[1] /\ s_sheet[i][2] = row[2]}

\* C29: after two upsert_rows calls with the same rows the tab holds
\* exactly one row per key of those rows: the second call overwrites
C29_UpsertTwiceKeepsOneRowPerKey ==
  s_calls = 2 =>
    \A k \in 1..Len(s_rows) : Cardinality(RowsOfKey(s_rows[k])) = 1

\* what upsert_rows does: every call appends every row it is given
C29_EveryCallAppends ==
  Len(s_sheet) = (IF s_sheet0 = <<>> THEN 1 ELSE Len(s_sheet0)) + s_calls * Len(s_rows)
  \/ s_calls = 0

-----------------------------------------------------------------------------
(* Properties of UltrahumanClient._get (specification SpecUltra) *)

\* the first data request was answered 401 while a refresh token was set
Got401 == h_gets >= 1 /\ h_first = 401 /\ h_refresh

\* C30: on a 401 with a refresh token _get refreshes the access token and
\* repeats the request exactly once; it sends at most two data requests and
\* a second failure is raised
C30_RefreshAndRepeatOnce ==
  /\ h_gets <= 2
  /\ h_pc = "done" /\ Got401 =>
       /\ h_refreshed = <<"ok">>
       /\ h_gets = 2
       /\ h_last # 200 => h_result = "raised"

\* C30 as amended: at most two data requests; the request is repeated, once,
\* exactly when the first answer was 401, a refresh token is set and the
\* refresh of line 136 succeeded; a refresh that fails is raised without a
\* second request; the answer of the last request decides the result
C30_RepeatOnceAfterRefresh ==
  /\ h_gets <= 2
  /\ Len(h_refreshed) <= 1
  /\ Len(h_refreshed) = 1 <=> (Got401 /\ h_pc # "refresh")
  /\ h_gets = 2 => Got401 /\ h_refreshed = <<"ok">>
  /\ h_pc = "done" =>
       /\ Got401 /\ h_refreshed = <<"ok">> => h_gets = 2
       /\ Got401 /\ h_refreshed # <<"ok">> => h_gets = 1 /\ h_result = "raised"
       /\ h_result = "returned" <=> (h_gets >= 1 /\ h_last = 200)
       /\ h_result \in {"returned", "raised"}

\* the request was repeated after a refresh and failed again
C30_Witness ==
  /\ h_pc = "done" /\ h_first = 401 /\ h_refreshed = <<"ok">>
  /\ h_gets = 2 /\ h_last = 401 /\ h_result = "raised"

-----------------------------------------------------------------------------
(* Properties of two append_rows invocations (specification SpecConc) *)

ConcDone == \A p \in Procs : c_pc[p] = "done"

\* the keys invocation p writes
ConcKeys(p) == {WriteKey(Incoming(c_rows[p][i])) : i \in 1..Len(c_rows[p])}

\* no key twice inside the batch of p
ConcDistinct(p) == Cardinality(ConcKeys(p)) = Len(c_rows[p])

\* the rows below the header that _read_existing_map would index under key
ConcRowsOfKey(sh, key) ==
  {i \in 2..Len(sh) : Indexed(TrimRow(sh[i])) /\ ReadKey(TrimRow(sh[i])) = key}

\* a key of both batches that the store did not hold
ConcNewSharedKeys ==
  {k \in ConcKeys(1) \cap ConcKeys(2) : ConcRowsOfKey(c_sheet0, k) = {}}

\* C28: when one invocation has returned before the other is called, the
\* store has its header in row 1 beforehand and neither batch holds a key
\* twice, the store ends with exactly one row for every key of the two
\* batches, the shared new keys among them.
C28_SerializedLeavesOneRow ==
  (/\ ConcDone
   /\ ~c_overlap
   /\ c_sheet0 # <<>>
   /\ \A p \in Procs : ConcDistinct(p))
    => /\ c_sheet[1] = HEADER
       /\ \A k \in ConcKeys(1) \cup ConcKeys(2) :
             Cardinality(ConcRowsOfKey(c_sheet, k)) = 1

\* C28: both invocations have returned, both read the index before either
\* wrote, and the store holds two rows for a new key that both batches had.
C28_Witness ==
  /\ ConcDone
  /\ c_early = Procs
  /\ c_sheet0 # <<>>
  /\ \A p \in Procs : ConcDistinct(p)
  /\ \E k \in ConcNewSharedKeys : Cardinality(ConcRowsOfKey(c_sheet, k)) = 2

\* the serialized case is there: a shared new key, no overlap, both returned
C28_SerializedWitness ==
  /\ ConcDone
  /\ ~c_overlap
  /\ c_sheet0 # <<>>
  /\ \A p \in Procs : ConcDistinct(p)
  /\ ConcNewSharedKeys # {}

-----------------------------------------------------------------------------
(* Properties of UltrahumanClient._headers (specification SpecUltra) *)

\* C31: while _expires_at is the 0.0 of the constructor and an access token
\* is present, building the headers calls no refresh_access_token: the
\* token is refreshed only in reaction to a 401.
C31_HeadersDoNotRefresh ==
  [][(h_pc = "headers" /\ h_unknown /\ h_access) => h_tried' = h_tried]_vars

\* what _headers does instead: with a refresh token and the expiry unknown
\* every _headers call tries a refresh, and without a refresh token none does
C31_HeadersRefreshWithRefreshToken ==
  [][(h_pc = "headers" /\ h_unknown) =>
        (h_tried' = h_tried + 1 <=> h_refresh) /\ (h_tried' = h_tried <=> ~h_refresh)]_vars

-----------------------------------------------------------------------------
(* Properties of RossClient._post (specification SpecRoss) *)

\* the _login calls made by line 72
LoginsOn401 == SelectSeq(ro_logins, LAMBDA c : c[1] = "_post")

\* a _login call of _headers directly follows a _login call of line 72 that
\* ended in one of the results
HeadersLoginFollows(results) ==
  \E i \in 1..(Len(ro_logins) - 1) :
     /\ ro_logins[i][1] = "_post" /\ ro_logins[i][2] \in results
     /\ ro_logins[i + 1][1] = "_headers"

-----------------------------------------------------------------------------
(* Properties of RollaOneClient._login (specification SpecRolla) *)

LoginDone == l_pc = "done" /\ l_config

\* the answers tried carry a token in none but, at most, the last
StopsAtFirstToken ==
  \A i \in 1..Len(l_seen) : YieldsToken(l_seen[i]) => i = Len(l_seen)

SomeToken == \E i \in 1..Len(l_seen) : YieldsToken(l_seen[i])

\* C33: _login tries its variants in order and succeeds, with _token and
\* the Authorization header set, as soon as one answer carries a token under
\* `token`, `access_token` or `data.token`; when no variant yields a token
\* it raises RuntimeError 'ROLLAONE login failed', also with a token of an
\* earlier login stored.
C33_FirstTokenLogsIn ==
  /\ Len(l_seen) <= LoginVariants
  /\ StopsAtFirstToken
  /\ LoginDone =>
       /\ SomeToken => l_result = "returned" /\ l_token = "new" /\ l_auth = "new"
       /\ ~SomeToken => /\ Len(l_seen) = LoginVariants
                        /\ l_result = "RuntimeError: login failed"

\* what lines 85 and 90 make of it: the login returns with the new token
\* only when the answer has it under `token`; a token under `access_token`
\* or `data.token` ends in KeyError, the token stored and the header not
\* set; without any token RuntimeError is raised only when no token was
\* stored before
C33_OnlyTokenKeyLogsIn ==
  /\ Len(l_seen) <= LoginVariants
  /\ StopsAtFirstToken
  /\ LoginDone =>
       LET last == l_seen[Len(l_seen)]
       IN /\ (l_result = "returned" /\ l_token = "new") <=> last = "token"
          /\ last \in {"access_token", "data.token"} =>
               l_result = "KeyError" /\ l_token = "new" /\ l_auth = l_token0
          /\ ~SomeToken =>
               (l_result = "RuntimeError: login failed" <=> NoToken(l_token0))

\* a re-login with a token stored, no variant yields a token
C33_StaleTokenWitness ==
  /\ LoginDone /\ l_token0 = "old" /\ ~SomeToken
  /\ l_result # "RuntimeError: login failed"


(***************************************************************************)
(* Properties of scripts/push_garmin_to_sheet.main (specification SpecPush)*)
(***************************************************************************)

\* the fetch_day calls made after the long pause
Repeats == { k \in 1..Len(pg_fetched) : pg_fetched[k][3] }

\* the dates whose first fetch_day call has been made, in call order
FirstAttempts == SelectSeq(pg_fetched, LAMBDA c : ~c[3])

LoopOver == pg_pc \in {"after_loop", "done"}

\* C40: in one run of main the long pause happens at most once and
\* fetch_day is repeated at most once, after it; every date of the range
\* is attempted, in order, whatever failed before, so the run makes at
\* least len(dates) and at most len(dates) + 1 fetch_day calls; and
\* upsert_rows is called at most once, after the last date
C40_OnePauseAllDates ==
  /\ pg_pauses <= 1
  /\ Cardinality(Repeats) <= pg_pauses
  /\ \A k \in Repeats : k > 1 /\ pg_fetched[k][1] = pg_fetched[k - 1][1]
  /\ \A k \in 1..Len(FirstAttempts) : FirstAttempts[k][1] = k
  /\ Len(pg_fetched) <= pg_dates + 1
  /\ LoopOver =>
       /\ Len(FirstAttempts) = pg_dates
       /\ Len(pg_fetched) >= pg_dates
  /\ Len(pg_upserts) <= 1
  /\ \A k \in 1..Len(pg_upserts) :
       pg_pc = "done" /\ pg_upserts[k][1] = pg_dates

\* a run over three dates: the first is rate limited, paused for and
\* repeated, a later one is rate limited again with no second pause, and
\* the rows are pushed
C40_Witness ==
  /\ pg_pc = "done"
  /\ pg_dates = 3
  /\ Len(pg_fetched) = 4
  /\ pg_fetched[2][3]
  /\ pg_fetched[3][2].raised /\ IsRateLimited(pg_fetched[3][2].error)
  /\ pg_pauses = 1
  /\ Len(pg_upserts) = 1

\* a run in which every fetch_day fails and nothing is pushed
C40_NothingPushedWitness ==
  /\ pg_pc = "done"
  /\ pg_dates > 1
  /\ \A k \in 1..Len(pg_fetched) : pg_fetched[k][2].raised
  /\ pg_upserts = <<>>
====
